----------------------------- MODULE TapProofs -----------------------------
(***************************************************************************)
(* Proofs about what the packet lines show: that run_*_monitor implements *)
(* the abstract capture CaptureTap, and that the display with the tuple in *)
(* hand is always the decoded records read so far, for every value of     *)
(* PacketMonitor's constants.                                              *)
(***************************************************************************)
EXTENDS LimitProofs, FiniteSetTheorems

\* When every record of s decodes, the decoded sequence is s decoded record
\* by record: the k-th decodable record is the k-th record.
LEMMA DecodedAll ==
    ASSUME NEW s \in Seq(Records(args.mode)),
           \A j \in 1..Len(s) : Decodable(s[j], args.mode)
    PROVE  DecodedSeq(s) = [k \in 1..Len(s) |-> Decode(s[k], args.mode)]
<1> DEFINE ok == {i \in 1..Len(s) : Decodable(s[i], args.mode)}
           kth(k) == CHOOSE i \in ok : Cardinality({j \in ok : j <= i}) = k
<1>1. ok = 1..Len(s)
    OBVIOUS
<1>2. \A i \in Nat : Cardinality(1..i) = i
    BY FS_Interval
<1>3. \A i \in ok : {j \in ok : j <= i} = 1..i
    BY <1>1
<1>0. Len(s) \in Nat
    OBVIOUS
<1>4. Cardinality(ok) = Len(s)
    <2>1. Cardinality(1..Len(s)) = Len(s)
        BY <1>0, <1>2
    <2>2. QED
        BY <1>1, <2>1, Zenon
<1>5. ASSUME NEW k \in 1..Len(s) PROVE kth(k) = k
    <2>1. k \in ok /\ {j \in ok : j <= k} = 1..k
        BY <1>1, <1>3
    <2>2. Cardinality(1..k) = k
        BY <1>2
    <2>3. \E i \in ok : Cardinality({j \in ok : j <= i}) = k
        BY <2>1, <2>2, Zenon
    <2>4. kth(k) \in ok /\ Cardinality({j \in ok : j <= kth(k)}) = k
        BY <2>3, Zenon
    <2>5. Cardinality(1..kth(k)) = kth(k)
        <3>1. kth(k) \in Nat
            BY <2>4, <1>1
        <3>2. QED
            BY <3>1, <1>2
    <2>6. QED
        BY <2>4, <2>5, <1>3, Zenon
<1>6. DecodedSeq(s) = [k \in 1..Cardinality(ok) |-> Decode(s[kth(k)], args.mode)]
    BY DEF DecodedSeq
<1>7. QED
    BY <1>4, <1>5, <1>6

\* The command line is parsed once and never changes, and only the child's
\* write of a matching record extends what is in the pipe, without a line
\* being printed in the same step.
LEMMA Frame ==
    ASSUME [Next]_vars
    PROVE  /\ args' = args
           /\ sent' # sent =>
                 /\ proc = "running"
                 /\ UNCHANGED lines
                 /\ \E p \in Traffic[iface] :
                       sent' = Append(sent, Record(p, args.mode))
<1>1. CASE CheckTshark \/ ResolveSelect \/ SelectUE \/ ResolveSrcIp
           \/ UsageError \/ Probe \/ SelectQuit
    BY <1>1 DEF CheckTshark, ResolveSelect, SelectUE, ResolveSrcIp, UsageError,
                Probe, SelectQuit, monVars
<1>2. CASE Launch \/ LaunchFails \/ InitCount \/ ReadRecord \/ ReadEOF
           \/ Count \/ PrintLine \/ Wait \/ Notice
    BY <1>2 DEF Launch, LaunchFails, InitCount, ReadRecord, ReadEOF, Count,
                PrintLine, Wait, Notice, capVars
<1>3. CASE HSummary \/ HTerminate \/ HWaitDone \/ HWaitTimeout \/ HKill
           \/ Interrupt
    BY <1>3 DEF HSummary, HTerminate, HWaitDone, HWaitTimeout, HKill, Interrupt,
                capVars
<1>4. CASE Emit
    BY <1>4 DEF Emit, childVars
<1>5. CASE LimitExit \/ ChildFail \/ TermExit \/ Terminated \/ UNCHANGED vars
    BY <1>5 DEF LimitExit, ChildFail, TermExit, Terminated, childVars, vars
<1>6. QED
    BY <1>1, <1>2, <1>3, <1>4, <1>5 DEF Next, MainStep
-----------------------------------------------------------------------------
\* The records in the pipe, decoded one by one.
Captured == [k \in 1..Len(sent) |-> Decode(sent[k], args.mode)]

\* Under LimitInv the refinement mapping of the tap is the pipe decoded
\* record by record, in this state and the next.
LEMMA CapturedIsDecoded ==
    ASSUME LimitInv, LimitInv', [Next]_vars
    PROVE  /\ DecodedSeq(sent) = Captured
           /\ (DecodedSeq(sent))' = Captured'
           /\ args' = args
<1>1. args' = args
    BY Frame
<1>2. sent \in Seq(Records(args.mode)) /\ sent' \in Seq(Records(args'.mode))
    BY DEF LimitInv, ShownInv, IInv, TypeOK
<1>3. DecodedSeq(sent) = Captured
    <2>1. \A j \in 1..Len(sent) : Decodable(sent[j], args.mode)
        BY DEF LimitInv, LimitFacts
    <2>2. QED
        BY <1>2, <2>1, DecodedAll DEF Captured
<1>4. (DecodedSeq(sent))' = Captured'
    <2>1. \A j \in 1..Len(sent') : Decodable(sent'[j], args.mode)
        BY <1>1 DEF LimitInv, LimitFacts
    <2>2. DecodedSeq(sent') = [k \in 1..Len(sent') |-> Decode(sent'[k], args.mode)]
        BY <1>1, <1>2, <2>1, DecodedAll
    <2>3. (DecodedSeq(sent))' = DecodedSeq(sent')
        BY <1>1 DEF DecodedSeq
    <2>4. QED
        BY <1>1, <2>2, <2>3 DEF Captured
<1>5. QED
    BY <1>1, <1>3, <1>4
(***************************************************************************)
(* For every value of the constants, run_*_monitor implements CaptureTap   *)
(* under the mapping captured = the decodable records tshark wrote, shown *)
(* = the printed lines: tshark writing a record is a capture, the print   *)
(* of the read loop shows the oldest captured packet not yet on the       *)
(* display, and every other step of main(), the handler and the child is  *)
(* a stutter.                                                              *)
(***************************************************************************)
THEOREM ImplementsTap == Spec => TapRefinement
<1>1. Init => Tap!Init
    <2> SUFFICES ASSUME Init PROVE Tap!Init
        OBVIOUS
    <2>1. sent = <<>> /\ lines = <<>> /\ args \in ArgChoices
        BY DEF Init
    <2>2. DecodedSeq(sent) = <<>>
        <3>1. sent \in Seq(Records(args.mode))
              /\ \A j \in 1..Len(sent) : Decodable(sent[j], args.mode)
            BY <2>1
        <3>2. DecodedSeq(sent) = [k \in 1..Len(sent) |-> Decode(sent[k], args.mode)]
            BY <3>1, DecodedAll
        <3>3. QED
            BY <2>1, <3>2
    <2>3. QED
        BY <2>1, <2>2 DEF Tap!Init
<1>2. LimitInv /\ LimitInv' /\ [Next]_vars => [Tap!Next]_Tap!vars
    <2> SUFFICES ASSUME LimitInv, LimitInv', [Next]_vars
                 PROVE  [Tap!Next]_Tap!vars
        OBVIOUS
    <2>1. /\ DecodedSeq(sent) = Captured
          /\ (DecodedSeq(sent))' = Captured'
          /\ args' = args
        BY CapturedIsDecoded
    <2>2. /\ args \in ArgChoices /\ sent \in Seq(Records(args.mode))
          /\ lines \in Seq(Lines)
          /\ proc # "none" => iface \in DOMAIN Traffic
        BY DEF LimitInv, ShownInv, IInv, TypeOK
    <2>3. args.mode \in Modes
        BY <2>2, ConstAssumption
    <2>4. CASE sent' # sent
        <3>1. /\ proc = "running" /\ UNCHANGED lines
              /\ \E p \in Traffic[iface] : sent' = Append(sent, Record(p, args.mode))
            BY <2>4, Frame
        <3>2. PICK p \in Traffic[iface] : sent' = Append(sent, Record(p, args.mode))
            BY <3>1
        <3>3. p \in Packets
            BY <2>2, <3>1, ConstAssumption
        <3>4. Decode(Record(p, args.mode), args.mode) \in Tuples
            BY <2>3, <3>3 DEF Tuples
        <3>5. Captured' = Append(Captured, Decode(Record(p, args.mode), args.mode))
            BY <2>1, <2>2, <3>2 DEF Captured
        <3>6. Tap!Capture
            BY <2>1, <3>1, <3>4, <3>5 DEF Tap!Capture
        <3>7. QED
            BY <3>6 DEF Tap!Next
    <2>5. CASE sent' = sent /\ lines' # lines
        <3>1. /\ pc = "print"
              /\ lines' = Append(lines, [n |-> packet_count, t |-> cur[1]])
            BY <2>5, OnlyPrintShows DEF PrintLine
        <3>2. packet_count = Len(lines) + 1
            BY <3>1 DEF LimitInv, ShownInv, ShownFacts
        <3>3. /\ readPos \in 1..Len(sent)
              /\ cur = <<Decode(sent[readPos], args.mode)>>
              /\ packet_count = readPos
            BY <3>1 DEF LimitInv, LimitFacts
        <3>4. Captured' = Captured
            BY <2>1, <2>5 DEF Captured
        <3>5. /\ Len(lines) < Len(Captured)
              /\ lines' = Append(lines, [n |-> Len(lines) + 1,
                                         t |-> Captured[Len(lines) + 1]])
            BY <2>2, <3>1, <3>2, <3>3 DEF Captured
        <3>6. Tap!Show
            BY <2>1, <3>4, <3>5 DEF Tap!Show
        <3>7. QED
            BY <3>6 DEF Tap!Next
    <2>6. CASE sent' = sent /\ lines' = lines
        <3>1. Captured' = Captured
            BY <2>1, <2>6 DEF Captured
        <3>2. QED
            BY <2>1, <2>6, <3>1 DEF Tap!vars
    <2>7. QED
        BY <2>4, <2>5, <2>6
<1>3. QED
    BY <1>1, <1>2, InitLimit, NextLimit, PTL DEF Spec, TapRefinement, Tap!Spec
-----------------------------------------------------------------------------
(***************************************************************************)
(* RenderOrder compares the display with the decoded prefix of the pipe. *)
(* It is inductive together with LimitInv and three facts: line i shows    *)
(* the i-th record numbered i, the lines and the tuple in hand account for *)
(* every record read, and that tuple is the one of the record read last.   *)
(***************************************************************************)
RenderFacts ==
    /\ \A i \in 1..Len(lines) :
          lines[i] = [n |-> i, t |-> Decode(sent[i], args.mode)]
    /\ Len(lines) + Len(cur) = readPos
    /\ cur # <<>> => cur = <<Decode(sent[readPos], args.mode)>>

RenderInv == LimitInv /\ RenderFacts
\* Only the read loop's read and print move the display, the tuple in hand
\* or the loop's place in the pipe.
LEMMA RenderFrame ==
    ASSUME [Next]_vars
    PROVE  ReadRecord \/ PrintLine \/ UNCHANGED <<lines, cur, readPos>>
<1>1. CASE CheckTshark \/ ResolveSelect \/ SelectUE \/ ResolveSrcIp
           \/ UsageError \/ Probe \/ SelectQuit
    BY <1>1 DEF CheckTshark, ResolveSelect, SelectUE, ResolveSrcIp, UsageError,
                Probe, SelectQuit, monVars
<1>2. CASE Launch \/ LaunchFails \/ InitCount \/ ReadEOF \/ Count \/ Wait
           \/ Notice
    BY <1>2 DEF Launch, LaunchFails, InitCount, ReadEOF, Count, Wait, Notice
<1>3. CASE HSummary \/ HTerminate \/ HWaitDone \/ HWaitTimeout \/ HKill
           \/ Interrupt
    BY <1>3 DEF HSummary, HTerminate, HWaitDone, HWaitTimeout, HKill, Interrupt
<1>4. CASE Emit \/ LimitExit \/ ChildFail \/ TermExit \/ Terminated
           \/ UNCHANGED vars
    BY <1>4 DEF Emit, LimitExit, ChildFail, TermExit, Terminated, childVars, vars
<1>5. QED
    BY <1>1, <1>2, <1>3, <1>4 DEF Next, MainStep

LEMMA InitRender == Init => RenderInv
<1> SUFFICES ASSUME Init PROVE RenderInv
    OBVIOUS
<1>1. LimitInv
    BY InitLimit
<1>2. RenderFacts
    BY DEF Init, RenderFacts
<1>3. QED
    BY <1>1, <1>2 DEF RenderInv

LEMMA NextRender == RenderInv /\ [Next]_vars => RenderInv'
<1> SUFFICES ASSUME RenderInv, [Next]_vars PROVE RenderInv'
    OBVIOUS
<1>0. LimitInv /\ LimitInv'
    BY NextLimit DEF RenderInv
<1> SUFFICES RenderFacts'
    BY <1>0 DEF RenderInv
<1>1. /\ sent \in Seq(Records(args.mode)) /\ readPos \in 0..Len(sent)
      /\ lines \in Seq(Lines)
      /\ cur \in {<<>>} \cup {<<t>> : t \in Tuples}
    BY <1>0 DEF LimitInv, ShownInv, IInv, TypeOK
<1>2. args' = args
    BY Frame
<1>3. \A i \in 1..Len(sent) : sent'[i] = sent[i]
    <2>1. CASE sent' = sent
        BY <2>1
    <2>2. CASE sent' # sent
        <3>1. PICK p \in Traffic[iface] : sent' = Append(sent, Record(p, args.mode))
            BY <2>2, Frame
        <3>2. QED
            BY <1>1, <3>1
    <2>3. QED
        BY <2>1, <2>2
<1>4. RenderFacts
    BY DEF RenderInv
<1>5. CASE ReadRecord
    <2>1. /\ pc = "read" /\ readPos < Len(sent)
          /\ Decodable(sent[readPos + 1], args.mode)
        BY <1>0, <1>5 DEF ReadRecord, LimitInv, LimitFacts
    <2>2. /\ readPos' = readPos + 1 /\ cur' = <<Decode(sent[readPos + 1], args.mode)>>
          /\ UNCHANGED <<lines, sent>>
        BY <1>5, <2>1 DEF ReadRecord, capVars
    <2>3. cur = <<>>
        <3>1. packet_count = readPos /\ packet_count = Len(lines)
            BY <1>0, <2>1 DEF LimitInv, LimitFacts, ShownInv, ShownFacts
        <3>2. QED
            BY <1>1, <1>4, <3>1 DEF RenderFacts
    <2>4. QED
        BY <1>1, <1>2, <1>4, <2>2, <2>3 DEF RenderFacts
<1>6. CASE PrintLine
    <2>1. /\ pc = "print"
          /\ lines' = Append(lines, [n |-> packet_count, t |-> cur[1]])
          /\ cur' = <<>> /\ UNCHANGED <<readPos, sent>>
        BY <1>6 DEF PrintLine, capVars
    <2>2. /\ packet_count = Len(lines) + 1
          /\ packet_count = readPos
          /\ readPos \in 1..Len(sent)
          /\ cur = <<Decode(sent[readPos], args.mode)>>
        BY <1>0, <2>1 DEF LimitInv, LimitFacts, ShownInv, ShownFacts
    <2>3. QED
        BY <1>1, <1>2, <1>4, <2>1, <2>2 DEF RenderFacts
<1>7. CASE UNCHANGED <<lines, cur, readPos>>
    <2>1. \A i \in 1..Len(lines) : i \in 1..Len(sent)
        BY <1>1, <1>4 DEF RenderFacts
    <2>2. cur # <<>> => readPos \in 1..Len(sent)
        BY <1>1, <1>4 DEF RenderFacts
    <2>3. QED
        BY <1>2, <1>3, <1>4, <1>7, <2>1, <2>2 DEF RenderFacts
<1>8. QED
    BY <1>5, <1>6, <1>7, RenderFrame
\* What RenderOrder expects is, with every record decodable, the records
\* read so far, line k numbered k.
LEMMA ExpectedIsRead ==
    ASSUME LimitInv
    PROVE  Expected = [i \in 1..readPos |->
                          [n |-> i, t |-> Decode(sent[i], args.mode)]]
<1> DEFINE pre == SubSeq(sent, 1, readPos)
<1>1. sent \in Seq(Records(args.mode)) /\ readPos \in 0..Len(sent)
    BY DEF LimitInv, ShownInv, IInv, TypeOK
<1>2. /\ pre \in Seq(Records(args.mode))
      /\ Len(pre) = readPos
      /\ \A j \in 1..readPos : pre[j] = sent[j]
    BY <1>1
<1>3. \A j \in 1..Len(pre) : Decodable(pre[j], args.mode)
    BY <1>1, <1>2 DEF LimitInv, LimitFacts
<1>4. DecodedSeq(pre) = [k \in 1..Len(pre) |-> Decode(pre[k], args.mode)]
    BY <1>2, <1>3, DecodedAll
<1>5. QED
    BY <1>2, <1>4 DEF Expected

LEMMA RenderInvOrder == RenderInv => RenderOrder
<1> SUFFICES ASSUME RenderInv PROVE RenderOrder
    OBVIOUS
<1>1. /\ sent \in Seq(Records(args.mode)) /\ readPos \in 0..Len(sent)
      /\ lines \in Seq(Lines)
      /\ cur \in {<<>>} \cup {<<t>> : t \in Tuples}
    BY DEF RenderInv, LimitInv, ShownInv, IInv, TypeOK
<1>2. Expected = [i \in 1..readPos |-> [n |-> i, t |-> Decode(sent[i], args.mode)]]
    BY ExpectedIsRead DEF RenderInv
<1>3. RenderFacts
    BY DEF RenderInv
<1>4. CASE cur = <<>>
    <2>1. Len(lines) = readPos
        BY <1>1, <1>3, <1>4 DEF RenderFacts
    <2>2. QED
        BY <1>1, <1>2, <1>3, <1>4, <2>1 DEF RenderFacts, RenderOrder
<1>5. CASE cur # <<>>
    <2>1. Len(lines) + 1 = readPos /\ cur = <<Decode(sent[readPos], args.mode)>>
        BY <1>1, <1>3, <1>5 DEF RenderFacts
    <2>2. QED
        BY <1>1, <1>2, <1>3, <2>1 DEF RenderFacts, RenderOrder
<1>6. QED
    BY <1>4, <1>5

(***************************************************************************)
(* For every value of the constants, the lines run_*_monitor has printed,  *)
(* followed by the tuple it holds between 'packet_count += 1' and the     *)
(* print, are exactly the records tshark wrote and the loop read, in       *)
(* order and numbered 1, 2, 3, ...: none lost, repeated or reordered,      *)
(* whatever the pipe, Ctrl-C and the handler do in between.                *)
(***************************************************************************)
THEOREM RenderOrderCorrect == Spec => []RenderOrder
<1>1. RenderInv => RenderOrder
    BY RenderInvOrder
<1>2. QED
    BY <1>1, InitRender, NextRender, PTL DEF Spec
=============================================================================
