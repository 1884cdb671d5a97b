--------------------------- MODULE HandlerProofs ----------------------------
(***************************************************************************)
(* Proofs about what the KeyboardInterrupt handler of run_*_monitor        *)
(* reports, for every value of PacketMonitor's constants.                  *)
(***************************************************************************)
EXTENDS PacketMonitorProofs

\* The handler has been entered: the pcs from the summary print on.
HandlerAt == {"h_summary", "h_term", "h_wait", "h_kill"}

\* k packets reported against the lines on the screen.
Shown(k) == k = Len(lines) \/ (k = Len(lines) + 1 /\ intrAt = "print")

(***************************************************************************)
(* SummaryCountsShown is not inductive: it says nothing of packet_count    *)
(* before the handler prints it.  ShownInv follows packet_count against    *)
(* the printed lines through the loop (equal, or one ahead between         *)
(* 'packet_count += 1' and the print), records that every interrupt before *)
(* the handler ends the run (so intrAt is still "none" in the loop), and   *)
(* that once the summary is printed the loop, the only writer of lines,    *)
(* is left for good.                                                       *)
(***************************************************************************)
ShownFacts ==
    /\ pc \in {"check", "resolve", "select", "probe", "banner", "spawned"}
           => packet_count = Unbound
    /\ packet_count = Unbound => lines = <<>>
    /\ pc \in {"read", "count", "wait", "notice"} => packet_count = Len(lines)
    /\ pc = "print" => packet_count = Len(lines) + 1
    /\ pc \notin HandlerAt \cup {"done"} => intrAt = "none"
    /\ pc = "h_summary" => Shown(packet_count)
    /\ summary # NoSummary => pc \in HandlerAt \cup {"done"} /\ Shown(summary)

ShownInv == IInv /\ ShownFacts

-----------------------------------------------------------------------------
LEMMA InitShown == Init => ShownInv
<1> SUFFICES ASSUME Init PROVE ShownInv
    OBVIOUS
<1>1. IInv
    BY InitIInv
<1>2. ShownFacts
    BY DEF Init, ShownFacts, HandlerAt, NoSummary, Unbound
<1>3. QED
    BY <1>1, <1>2 DEF ShownInv

LEMMA NextShown == ShownInv /\ [Next]_vars => ShownInv'
<1> SUFFICES ASSUME ShownInv, [Next]_vars PROVE ShownInv'
    OBVIOUS
<1>0. IInv /\ IInv'
    BY NextIInv DEF ShownInv
<1> SUFFICES ShownFacts'
    BY <1>0 DEF ShownInv
<1>50. /\ packet_count \in Nat \cup {Unbound} /\ lines \in Seq(Lines)
      /\ pc \in {"read", "count", "print", "wait", "notice", "h_summary",
                 "h_term", "h_wait", "h_kill"} => packet_count \in Nat
    BY <1>0 DEF IInv, TypeOK, CountedAt
<1>51. ShownFacts
    BY DEF ShownInv
<1> HIDE DEF ShownInv
<1> USE <1>51 DEF ShownFacts, Shown, HandlerAt, NoSummary, Unbound, Exit
<1>1. CASE CheckTshark
    BY <1>1 DEF CheckTshark, monVars
<1>2. CASE ResolveSelect
    BY <1>2 DEF ResolveSelect, monVars
<1>3. CASE SelectUE
    BY <1>3 DEF SelectUE, monVars
<1>4. CASE ResolveSrcIp
    BY <1>4 DEF ResolveSrcIp, monVars
<1>5. CASE UsageError
    BY <1>5 DEF UsageError, monVars
<1>6. CASE Probe
    BY <1>6 DEF Probe, monVars
<1>7. CASE Launch
    BY <1>7 DEF Launch, capVars
<1>8. CASE LaunchFails
    BY <1>8 DEF LaunchFails, capVars
<1>9. CASE InitCount
    BY <1>9 DEF InitCount, capVars
<1>10. CASE ReadRecord
    BY <1>10 DEF ReadRecord, capVars
<1>11. CASE ReadEOF
    BY <1>11 DEF ReadEOF, capVars
<1>12. CASE Count
    BY <1>50, <1>12 DEF Count, capVars
<1>13. CASE PrintLine
    BY <1>50, <1>13 DEF PrintLine, capVars
<1>14. CASE Wait
    BY <1>14 DEF Wait, capVars
<1>15. CASE Notice
    BY <1>15 DEF Notice
<1>16. CASE HSummary
    BY <1>16 DEF HSummary
<1>17. CASE HTerminate
    BY <1>17 DEF HTerminate
<1>18. CASE HWaitDone
    BY <1>18 DEF HWaitDone, capVars
<1>19. CASE HWaitTimeout
    BY <1>19 DEF HWaitTimeout, capVars
<1>20. CASE HKill
    BY <1>20 DEF HKill, capVars
<1>21. CASE SelectQuit
    BY <1>21 DEF SelectQuit, monVars
<1>22. CASE Interrupt
    <2>1. /\ intrAt' = IF intrAt = "none" THEN pc ELSE intrAt
          /\ UNCHANGED <<packet_count, lines, summary>>
          /\ IntrOutcome
        BY <1>22 DEF Interrupt
    <2> USE DEF UncaughtAt, CaughtAt, KillAt
    <2>2. CASE pc \in UncaughtAt \cup {"select", "spawned", "h_kill"}
        <3>1. pc' = "done"
            BY <2>1, <2>2, Zenon DEF IntrOutcome
        <3>2. QED
            BY <2>1, <2>2, <3>1
    <2>3. CASE pc \in CaughtAt
        <3>1. pc' = "h_summary"
            BY <2>1, <2>3, Zenon DEF IntrOutcome
        <3>2. intrAt' = pc
            BY <2>1, <2>3
        <3>3. QED
            BY <2>1, <2>3, <3>1, <3>2
    <2>4. CASE pc \in KillAt
        <3>1. pc' = "h_kill"
            BY <2>1, <2>4, Zenon DEF IntrOutcome
        <3>2. QED
            BY <2>1, <2>4, <3>1
    <2>5. QED
        BY <1>0, <1>22, <2>2, <2>3, <2>4 DEF Interrupt, IInv, TypeOK, PCs
<1>23. CASE Emit \/ LimitExit \/ ChildFail \/ TermExit \/ Terminated
           \/ UNCHANGED vars
    BY <1>23 DEF Emit, LimitExit, ChildFail, TermExit, Terminated, childVars,
                 vars
<1> HIDE DEF ShownFacts, Shown, HandlerAt, NoSummary, Unbound, Exit
<1>24. QED
    BY <1>1, <1>2, <1>3, <1>4, <1>5, <1>6, <1>7, <1>8, <1>9, <1>10,
       <1>11, <1>12, <1>13, <1>14, <1>15, <1>16, <1>17, <1>18, <1>19, <1>20,
       <1>21, <1>22, <1>23 DEF Next, MainStep

(***************************************************************************)
(* The total printed by the KeyboardInterrupt handler is the number of     *)
(* packet lines shown, or one more exactly when the interrupt fell between *)
(* 'packet_count += 1' and that packet's print: for every host, command    *)
(* line, record bound and number of interrupts.                            *)
(***************************************************************************)
THEOREM SummaryCorrect == Spec => []SummaryCountsShown
<1>1. ShownInv => SummaryCountsShown
    BY DEF ShownInv, ShownFacts, Shown, SummaryCountsShown
<1>2. QED
    BY InitShown, NextShown, <1>1, PTL DEF Spec

-----------------------------------------------------------------------------
(***************************************************************************)
(* With one SIGINT allowed the handler runs to its end: CancelFacts says   *)
(* that an interrupt has been counted once intrAt is set, that the handler *)
(* is only entered from the capture loop, and that a run which ended after *)
(* entering it has no running child.                                       *)
(***************************************************************************)
CancelFacts ==
    /\ intrAt # "none" => interrupts >= 1
    /\ pc \in HandlerAt => intrAt \in CaughtAt
    /\ (pc = "done" /\ intrAt \in CaughtAt) => proc # "running"

CancelInv == ShownInv /\ CancelFacts

LEMMA InitCancel == Init => CancelInv
<1> SUFFICES ASSUME Init PROVE CancelInv
    OBVIOUS
<1>1. ShownInv
    BY InitShown
<1>2. CancelFacts
    BY DEF Init, CancelFacts, HandlerAt
<1>3. QED
    BY <1>1, <1>2 DEF CancelInv

LEMMA NextCancel ==
    ASSUME MaxInterrupts <= 1, CancelInv, [Next]_vars
    PROVE  CancelInv'
<1>0. ShownInv /\ ShownInv'
    BY NextShown DEF CancelInv
<1> SUFFICES CancelFacts'
    BY <1>0 DEF CancelInv
<1>50. /\ interrupts \in 0..MaxInterrupts /\ MaxInterrupts \in Nat
       /\ pc \notin HandlerAt \cup {"done"} => intrAt = "none"
    BY <1>0, ConstAssumption DEF ShownInv, ShownFacts, IInv, TypeOK
<1>51. CancelFacts
    BY DEF CancelInv
<1> HIDE DEF CancelInv
<1> USE <1>50, <1>51 DEF CancelFacts, HandlerAt, Exit, CaughtAt
<1>1. CASE CheckTshark
    BY <1>1 DEF CheckTshark, monVars
<1>2. CASE ResolveSelect
    BY <1>2 DEF ResolveSelect, monVars
<1>3. CASE SelectUE
    BY <1>3 DEF SelectUE, monVars
<1>4. CASE ResolveSrcIp
    BY <1>4 DEF ResolveSrcIp, monVars
<1>5. CASE UsageError
    BY <1>5 DEF UsageError, monVars
<1>6. CASE Probe
    BY <1>6 DEF Probe, monVars
<1>7. CASE SelectQuit
    BY <1>7 DEF SelectQuit, monVars
<1>8. CASE Launch
    BY <1>8 DEF Launch, capVars
<1>9. CASE LaunchFails
    BY <1>9 DEF LaunchFails, capVars
<1>10. CASE InitCount
    BY <1>10 DEF InitCount, capVars
<1>11. CASE ReadRecord
    BY <1>11 DEF ReadRecord, capVars
<1>12. CASE ReadEOF
    BY <1>12 DEF ReadEOF, capVars
<1>13. CASE Count
    BY <1>13 DEF Count, capVars
<1>14. CASE PrintLine
    BY <1>14 DEF PrintLine, capVars
<1>15. CASE Wait
    BY <1>15 DEF Wait, capVars
<1>16. CASE Notice
    BY <1>16 DEF Notice
<1>17. CASE HSummary
    BY <1>17 DEF HSummary
<1>18. CASE HTerminate
    BY <1>18 DEF HTerminate
<1>19. CASE HWaitDone
    BY <1>19 DEF HWaitDone, capVars
<1>20. CASE HWaitTimeout
    BY <1>20 DEF HWaitTimeout, capVars
<1>21. CASE HKill
    BY <1>21 DEF HKill, capVars
<1>30. CASE Interrupt
    <2>1. /\ interrupts < MaxInterrupts /\ interrupts' = interrupts + 1
          /\ intrAt' = IF intrAt = "none" THEN pc ELSE intrAt
          /\ IntrOutcome
        BY <1>30 DEF Interrupt
    <2>2. intrAt = "none"
        BY <2>1
    <2> USE DEF UncaughtAt, CaughtAt, KillAt
    <2>3. pc \notin HandlerAt \cup {"done"}
        BY <1>30, <2>2, Zenon DEF Interrupt
    <2>4. CASE pc \in CaughtAt
        <3>1. pc' = "h_summary"
            BY <2>1, <2>4, Zenon DEF IntrOutcome
        <3>2. QED
            BY <2>1, <2>2, <2>4, <3>1
    <2>5. CASE pc \notin CaughtAt
        <3>1. intrAt' \notin CaughtAt
            BY <2>1, <2>2, <2>5
        <3>2. pc \in UncaughtAt \cup {"select", "spawned"}
            BY <1>0, <2>3, <2>5 DEF ShownInv, IInv, TypeOK, PCs
        <3>4. pc' = "done"
            BY <2>1, <3>2, Zenon DEF IntrOutcome
        <3>3. QED
            BY <2>1, <3>1, <3>4
    <2>6. QED
        BY <2>4, <2>5
<1>31. CASE Emit \/ LimitExit \/ ChildFail \/ TermExit \/ Terminated
           \/ UNCHANGED vars
    BY <1>31 DEF Emit, LimitExit, ChildFail, TermExit, Terminated, childVars,
                 vars
<1> HIDE DEF CancelFacts, HandlerAt, Exit, CaughtAt
<1>32. QED
    BY <1>1, <1>2, <1>3, <1>4, <1>5, <1>6, <1>7, <1>8, <1>9, <1>10, <1>11, <1>12, <1>13, <1>14, <1>15, <1>16, <1>17, <1>18, <1>19, <1>20, <1>21, <1>30, <1>31
    DEF Next, MainStep

(***************************************************************************)
(* Spec section 4.4 for one Ctrl-C: whatever the host, command line and    *)
(* bounds, a run that entered the KeyboardInterrupt handler of             *)
(* run_*_monitor never exits with tshark still running.  (With a second    *)
(* SIGINT it can: the run second_interrupt.)                               *)
(***************************************************************************)
THEOREM OneInterruptStopsCapture ==
    ASSUME MaxInterrupts <= 1
    PROVE  Spec => []CancelStopsCapture
<1>1. CancelInv => CancelStopsCapture
    BY DEF CancelInv, CancelFacts, CancelStopsCapture
<1>2. CancelInv /\ [Next]_vars => CancelInv'
    BY NextCancel
<1>3. QED
    BY InitCancel, <1>1, <1>2, PTL DEF Spec
=============================================================================
