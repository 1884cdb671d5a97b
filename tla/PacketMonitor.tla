--------------------------- MODULE PacketMonitor ---------------------------
(***************************************************************************)
(* One run of scripts/ue_packet_monitor.py: main() resolves the target,    *)
(* probes the capture permissions, and run_simple_monitor /                *)
(* run_5tuple_monitor supervise a tshark child, decode its records and     *)
(* print one numbered line per packet, until the stream ends or the        *)
(* operator interrupts (KeyboardInterrupt) and the handler shuts the       *)
(* child down.                                                             *)
(*                                                                         *)
(* Two actors: the Python main thread (pc) and the tshark child (proc),    *)
(* connected by its stdout pipe.  The environment delivers packets to the  *)
(* child, makes it fail, and raises SIGINT in the main thread at any       *)
(* point, which is where Python raises KeyboardInterrupt.                  *)
(***************************************************************************)
EXTENDS RecordDecoder

CONSTANTS
    Addrs,          \* IPv4/IPv6 addresses (model values or strings)
    ValIfaces,      \* detect_val_interfaces(): the val* names, sorted
    IfaceIP,        \* get_interface_ip: val* name -> address or NoIP
    NoIP,           \* get_interface_ip returned None
    Packets,        \* every packet some interface can carry
    Traffic,        \* capture interface name -> packets seen on it
    ArgChoices,     \* the command lines considered (parsed args)
    ProbeOutcomes,  \* what the probe's subprocess.run can end with
    MaxRecords,     \* bound: records the child emits in one run
    PipeCap,        \* bound: records the stdout pipe holds unread
    MaxInterrupts   \* bound: SIGINTs the operator sends in one run

\* 'any' is the fallback capture interface of main().
Any == "any"

\* An option left off the command line (argparse's None) and an unset
\* src_ip/interface are both the falsy Empty of RecordDecoder.

ASSUME ConstAssumption ==
    /\ MaxRecords \in Nat
    /\ PipeCap \in Nat \ {0}
    /\ MaxInterrupts \in Nat
    /\ Traffic \in [DOMAIN Traffic -> SUBSET Packets]
    /\ Any \in DOMAIN Traffic
    /\ ValIfaces \in Seq(DOMAIN Traffic)
    /\ IfaceIP \in [Range(ValIfaces) -> Addrs \cup {NoIP}]
    /\ NoIP \notin Addrs /\ Empty \notin Addrs
    /\ ArgChoices \subseteq [select : BOOLEAN, srcIp : Addrs \cup {Empty},
                             iface : DOMAIN Traffic \cup {Empty}, mode : Modes,
                             count : Nat]

\* Every IP header carries both addresses: tshark prints ip.src and ip.dst
\* (ipv6.src, ipv6.dst) for any header it dissects.  A packet's headers
\* are numbered from the outermost.
ASSUME PacketAssumption ==
    \A p \in Packets :
        /\ DOMAIN p.layers \subseteq Nat
        /\ \A i \in DOMAIN p.layers :
              p.layers[i].src # Empty /\ p.layers[i].dst # Empty

VARIABLES
    args,           \* the parsed command line, fixed for the run
    pc,             \* where the main thread is
    srcIp,          \* src_ip of main()
    iface,          \* interface of main()
    packet_count,   \* the local of run_*_monitor, Unbound before it is set
    cur,            \* the decoded tuple being rendered: <<>> or <<t>>
    lines,          \* the numbered packet lines printed, in order
    summary,        \* the total "Stopped by user" printed, or NoSummary
    notice,         \* "No packets were captured" printed
    exitCode,       \* the process exit status, NoExit while running
    intrAt,         \* where the first KeyboardInterrupt landed, or "none"
    interrupts,     \* SIGINTs delivered so far
    proc,           \* the tshark child: "none", "running" or "exited"
    procExit,       \* why it exited: "none", "limit", "error", "term", ...
    termReq,        \* process.terminate() has been called
    sent,           \* every record the child wrote to its stdout
    readPos         \* records the loop has taken off the pipe

vars == <<args, pc, srcIp, iface, packet_count, cur, lines, summary, notice,
          exitCode, intrAt, interrupts, proc, procExit, termReq, sent, readPos>>

Unbound == -1
NoExit == -1
NoSummary == -1    \* the handler's summary has not been printed
SigInt == 130       \* status of a Python killed by an uncaught KeyboardInterrupt

-----------------------------------------------------------------------------
(***************************************************************************)
(* Interface discovery and target resolution (list_active_ues, main).      *)
(***************************************************************************)

\* list_active_ues(): the val* interfaces get_interface_ip finds an IP on.
\* The menu numbers them in name order; which entry the user picks is
\* the choice, so the set is what matters.
ActiveUEs == {i \in Range(ValIfaces) : IfaceIP[i] # NoIP}

\* The auto-detected interface for --src-ip: the first val* interface, in
\* name order, whose IP is ip; 'any' when there is none.
AutoIface(ip) ==
    LET ks == {k \in DOMAIN ValIfaces : IfaceIP[ValIfaces[k]] = ip}
    IN  IF ks = {} THEN Any ELSE ValIfaces[Min(ks)]

\* probe_capture_permissions: (ok, msg) from how subprocess.run ended.
ProbeOk(o) ==
    CASE o.kind = "notfound" -> FALSE
      [] o.kind = "timeout"  -> TRUE
      [] o.kind = "raised"   -> FALSE
      [] o.kind = "exited"   -> ~(o.stderr = "permission")
                                /\ ~(o.rc # 0 /\ o.stderr # Empty)

-----------------------------------------------------------------------------
Exit(code) == /\ pc' = "done"
              /\ exitCode' = code

Init ==
    /\ args \in ArgChoices
    /\ pc = "check"
    /\ srcIp = Empty /\ iface = Empty
    /\ packet_count = Unbound
    /\ cur = <<>> /\ lines = <<>>
    /\ summary = NoSummary /\ notice = FALSE
    /\ exitCode = NoExit
    /\ intrAt = "none" /\ interrupts = 0
    /\ proc = "none" /\ procExit = "none" /\ termReq = FALSE
    /\ sent = <<>> /\ readPos = 0

\* Variables the main thread leaves alone outside the capture.
monVars == <<packet_count, cur, lines, summary, notice, intrAt, interrupts,
             proc, procExit, termReq, sent, readPos>>

\* check_tshark(): tshark missing (or 'tshark --version' failed) -> exit 1.
CheckTshark ==
    /\ pc = "check"
    /\ \/ pc' = "resolve" /\ UNCHANGED exitCode
       \/ Exit(1)
    /\ UNCHANGED <<args, srcIp, iface, monVars>>

\* --select: select_ue_interactive() lists the active UEs first.
ResolveSelect ==
    /\ pc = "resolve" /\ args.select
    /\ IF ActiveUEs = {} THEN Exit(1)
                           ELSE pc' = "select" /\ UNCHANGED exitCode
    /\ UNCHANGED <<args, srcIp, iface, monVars>>

\* A valid menu number: the UE's IP, and its interface unless --interface.
SelectUE ==
    /\ pc = "select"
    /\ \E i \in ActiveUEs :
          /\ srcIp' = IfaceIP[i]
          /\ iface' = IF args.iface # Empty THEN args.iface ELSE i
    /\ pc' = "probe"
    /\ UNCHANGED <<args, exitCode, monVars>>

\* 'q' at the menu: sys.exit(0).
SelectQuit ==
    /\ pc = "select"
    /\ Exit(0)
    /\ UNCHANGED <<args, srcIp, iface, monVars>>

\* --src-ip: the interface is --interface, else auto-detected, else 'any'.
ResolveSrcIp ==
    /\ pc = "resolve" /\ ~args.select /\ args.srcIp # Empty
    /\ srcIp' = args.srcIp
    /\ iface' = IF args.iface # Empty THEN args.iface ELSE AutoIface(args.srcIp)
    /\ pc' = "probe"
    /\ UNCHANGED <<args, exitCode, monVars>>

\* Neither --src-ip nor --select: usage error, exit 1.
UsageError ==
    /\ pc = "resolve" /\ ~args.select /\ args.srcIp = Empty
    /\ Exit(1)
    /\ UNCHANGED <<args, srcIp, iface, monVars>>

\* probe_capture_permissions(interface); 'if not ok: sys.exit(1)'.
Probe ==
    /\ pc = "probe"
    /\ \E o \in ProbeOutcomes :
          IF ProbeOk(o) THEN pc' = "banner" /\ UNCHANGED exitCode
                        ELSE Exit(1)
    /\ UNCHANGED <<args, srcIp, iface, monVars>>

-----------------------------------------------------------------------------
(***************************************************************************)
(* run_simple_monitor / run_5tuple_monitor (they differ only in the '-e'   *)
(* list, the minimum field count and the line layout, all of which are    *)
(* the mode argument of Record and Decode).                               *)
(***************************************************************************)

capVars == <<args, srcIp, iface, summary, notice, intrAt, interrupts, termReq>>

\* subprocess.Popen(['stdbuf', '-oL'] + tshark_cmd, ...): the child runs.
Launch ==
    /\ pc = "banner"
    /\ proc' = "running"
    /\ pc' = "spawned"
    /\ UNCHANGED <<capVars, exitCode, packet_count, cur, lines, procExit,
                   sent, readPos>>

\* Popen raises (stdbuf missing or not executable): the OSError leaves the
\* inner try, main's 'except PermissionError / Exception' exits 1.
LaunchFails ==
    /\ pc = "banner"
    /\ Exit(1)
    /\ UNCHANGED <<capVars, packet_count, cur, lines, proc, procExit, sent,
                   readPos>>

\* packet_count = 0, after Popen has returned.
InitCount ==
    /\ pc = "spawned"
    /\ packet_count' = 0
    /\ pc' = "read"
    /\ UNCHANGED <<capVars, exitCode, cur, lines, proc, procExit, sent, readPos>>

\* Mutant: the loop steps over one record too many.
ReadRecordSkip ==
    /\ pc = "read"
    /\ readPos < Len(sent)
    /\ readPos' = readPos + 2
    /\ LET r == sent[readPos + 1] IN
       IF Decodable(r, args.mode)
       THEN cur' = <<Decode(r, args.mode)>> /\ pc' = "count"
       ELSE UNCHANGED <<cur, pc>>
    /\ UNCHANGED <<capVars, exitCode, packet_count, lines, proc, procExit, sent>>

\* One iteration of 'for line in process.stdout': a record that does not
\* decode is skipped ('continue'), one that does goes on to be counted.
ReadRecord ==
    /\ pc = "read"
    /\ readPos < Len(sent)
    /\ readPos' = readPos + 1
    /\ LET r == sent[readPos + 1] IN
       IF Decodable(r, args.mode)
       THEN cur' = <<Decode(r, args.mode)>> /\ pc' = "count"
       ELSE UNCHANGED <<cur, pc>>
    /\ UNCHANGED <<capVars, exitCode, packet_count, lines, proc, procExit, sent>>

\* Mutant: the loop stops as soon as the child has exited (a poll()
\* loop), leaving what is still in the pipe unread.
ReadEOFEarly ==
    /\ pc = "read"
    /\ proc = "exited"
    /\ pc' = "wait"
    /\ UNCHANGED <<capVars, exitCode, packet_count, cur, lines, proc, procExit,
                   sent, readPos>>

\* The pipe is drained and its writer gone: the for loop ends.
ReadEOF ==
    /\ pc = "read"
    /\ readPos = Len(sent)
    /\ proc = "exited"
    /\ pc' = "wait"
    /\ UNCHANGED <<capVars, exitCode, packet_count, cur, lines, proc, procExit,
                   sent, readPos>>

\* packet_count += 1
Count ==
    /\ pc = "count"
    /\ packet_count' = packet_count + 1
    /\ pc' = "print"
    /\ UNCHANGED <<capVars, exitCode, cur, lines, proc, procExit, sent, readPos>>

\* Mutant: the rendered tuple is not cleared after printing.
PrintNoReset ==
    /\ pc = "print"
    /\ lines' = Append(lines, [n |-> packet_count, t |-> cur[1]])
    /\ pc' = "read"
    /\ UNCHANGED <<capVars, exitCode, packet_count, cur, proc, procExit, sent,
                   readPos>>

\* Mutant: the line is printed with the count before the increment (the
\* print and 'packet_count += 1' swapped).
PrintStaleCount ==
    /\ pc = "print"
    /\ lines' = Append(lines, [n |-> packet_count - 1, t |-> cur[1]])
    /\ cur' = <<>>
    /\ pc' = "read"
    /\ UNCHANGED <<capVars, exitCode, packet_count, proc, procExit, sent, readPos>>

\* print(format_*_line(..., packet_count)); sys.stdout.flush()
PrintLine ==
    /\ pc = "print"
    /\ lines' = Append(lines, [n |-> packet_count, t |-> cur[1]])
    /\ cur' = <<>>
    /\ pc' = "read"
    /\ UNCHANGED <<capVars, exitCode, packet_count, proc, procExit, sent, readPos>>

\* process.wait(); the notice if nothing was printed; else back to main,
\* which returns: exit 0.  The child's return code is not looked at.
Wait ==
    /\ pc = "wait"
    /\ proc = "exited"
    /\ IF packet_count = 0 THEN pc' = "notice" /\ UNCHANGED exitCode
                           ELSE Exit(0)
    /\ UNCHANGED <<capVars, packet_count, cur, lines, proc, procExit, sent,
                   readPos>>

\* print("No packets were captured"); then exit 0.
Notice ==
    /\ pc = "notice"
    /\ notice' = TRUE
    /\ Exit(0)
    /\ UNCHANGED <<args, srcIp, iface, summary, intrAt, interrupts, termReq,
                   packet_count, cur, lines, proc, procExit, sent, readPos>>

-----------------------------------------------------------------------------
(***************************************************************************)
(* KeyboardInterrupt and the 'except KeyboardInterrupt' handler.           *)
(***************************************************************************)

\* Where no handler catches the interrupt: Python dies of SIGINT.
UncaughtAt == {"check", "resolve", "probe", "banner", "h_summary"}
\* Inside the inner try, after packet_count = 0: the handler runs.
CaughtAt == {"read", "count", "print", "wait", "notice"}
\* Inside the handler's 'try: terminate(); wait(timeout=2)': 'except:' kills.
KillAt == {"h_term", "h_wait"}

\* Where the KeyboardInterrupt lands decides what the main thread does next.
IntrOutcome ==
    CASE pc \in UncaughtAt -> Exit(SigInt)
        \* select_ue_interactive catches it: sys.exit(0)
     [] pc = "select"     -> Exit(0)
        \* the handler reads packet_count before it is bound: the
        \* UnboundLocalError reaches main's 'except Exception': exit 1
     [] pc = "spawned"    -> Exit(1)
     [] pc \in CaughtAt   -> pc' = "h_summary" /\ UNCHANGED exitCode
     [] pc \in KillAt     -> pc' = "h_kill" /\ UNCHANGED exitCode
        \* inside process.kill(): the inner 'except: pass'
     [] pc = "h_kill"     -> Exit(0)

\* SIGINT to Python; when it comes from the terminal the whole foreground
\* process group, tshark included, gets it too (group).
Interrupt ==
    /\ pc # "done"
    /\ interrupts < MaxInterrupts
    /\ interrupts' = interrupts + 1
    /\ intrAt' = IF intrAt = "none" THEN pc ELSE intrAt
    /\ \E group \in BOOLEAN :
          IF group /\ proc = "running"
          THEN proc' = "exited" /\ procExit' = "signal"
          ELSE UNCHANGED <<proc, procExit>>
    /\ IntrOutcome
    /\ UNCHANGED <<args, srcIp, iface, packet_count, cur, lines, summary, notice,
                   termReq, sent, readPos>>

\* Mutant: the summary counts one packet more than were counted.
HSummaryOffByOne ==
    /\ pc = "h_summary"
    /\ summary' = packet_count + 1
    /\ pc' = "h_term"
    /\ UNCHANGED <<args, srcIp, iface, notice, intrAt, interrupts, termReq,
                   exitCode, packet_count, cur, lines, proc, procExit, sent,
                   readPos>>

\* print(f"Stopped by user. Total packets captured: {packet_count}")
HSummary ==
    /\ pc = "h_summary"
    /\ summary' = packet_count
    /\ pc' = "h_term"
    /\ UNCHANGED <<args, srcIp, iface, notice, intrAt, interrupts, termReq,
                   exitCode, packet_count, cur, lines, proc, procExit, sent,
                   readPos>>

\* process.terminate(): SIGTERM to the child.
HTerminate ==
    /\ pc = "h_term"
    /\ termReq' = TRUE
    /\ pc' = "h_wait"
    /\ UNCHANGED <<args, srcIp, iface, summary, notice, intrAt, interrupts,
                   exitCode, packet_count, cur, lines, proc, procExit, sent,
                   readPos>>

\* process.wait(timeout=2) returns: the handler ends, main exits 0.
HWaitDone ==
    /\ pc = "h_wait"
    /\ proc = "exited"
    /\ Exit(0)
    /\ UNCHANGED <<capVars, packet_count, cur, lines, proc, procExit, sent,
                   readPos>>

\* Mutant: a timed-out wait() is treated as done, nothing is killed.
HWaitTimeoutNoKill ==
    /\ pc = "h_wait"
    /\ proc = "running"
    /\ Exit(0)
    /\ UNCHANGED <<capVars, packet_count, cur, lines, proc, procExit, sent,
                   readPos>>

\* TimeoutExpired after 2 s with the child still running: 'except:'.
HWaitTimeout ==
    /\ pc = "h_wait"
    /\ proc = "running"
    /\ pc' = "h_kill"
    /\ UNCHANGED <<capVars, exitCode, packet_count, cur, lines, proc, procExit,
                   sent, readPos>>

\* process.kill(): SIGKILL; the handler ends, main exits 0.
HKill ==
    /\ pc = "h_kill"
    /\ IF proc = "running" THEN proc' = "exited" /\ procExit' = "killed"
                           ELSE UNCHANGED <<proc, procExit>>
    /\ Exit(0)
    /\ UNCHANGED <<capVars, packet_count, cur, lines, sent, readPos>>

-----------------------------------------------------------------------------
(***************************************************************************)
(* The tshark child (the external capture engine, modelled from the       *)
(* command line the code builds: '-Y ip.src == <src_ip>', '-c N').        *)
(***************************************************************************)

childVars == <<args, pc, srcIp, iface, packet_count, cur, lines, summary,
               notice, exitCode, intrAt, interrupts, termReq, readPos>>

\* A packet on the capture interface passes the display filter: tshark
\* writes its record, or dies of SIGPIPE once Python has exited.
Emit ==
    /\ proc = "running"
    /\ Len(sent) < MaxRecords
    /\ Len(sent) - readPos < PipeCap
    /\ args.count = 0 \/ Len(sent) < args.count
    /\ \E p \in Traffic[iface] :
          /\ Matches(p, srcIp)
          /\ IF pc = "done"
             THEN proc' = "exited" /\ procExit' = "sigpipe" /\ UNCHANGED sent
             ELSE sent' = Append(sent, Record(p, args.mode))
                  /\ UNCHANGED <<proc, procExit>>
    /\ UNCHANGED childVars

\* Mutant: '-c' never reaches the tshark command line.
LimitExitNoCount ==
    /\ proc = "running"
    /\ FALSE
    /\ proc' = "exited" /\ procExit' = "limit"
    /\ UNCHANGED <<childVars, sent>>

\* '-c N': tshark stops by itself after the N-th record.
LimitExit ==
    /\ proc = "running"
    /\ args.count # 0 /\ Len(sent) = args.count
    /\ proc' = "exited" /\ procExit' = "limit"
    /\ UNCHANGED <<childVars, sent>>

\* tshark fails (interface gone, capture error): its stderr is DEVNULL.
ChildFail ==
    /\ proc = "running"
    /\ proc' = "exited" /\ procExit' = "error"
    /\ UNCHANGED <<childVars, sent>>

\* tshark handles the SIGTERM of process.terminate() and exits.
TermExit ==
    /\ proc = "running" /\ termReq
    /\ proc' = "exited" /\ procExit' = "term"
    /\ UNCHANGED <<childVars, sent>>

\* Both processes are gone: nothing more happens.
Terminated ==
    /\ pc = "done" /\ proc # "running"
    /\ UNCHANGED vars

-----------------------------------------------------------------------------
\* The main thread's own steps (not the environment's).
MainStep ==
    \/ CheckTshark \/ ResolveSelect \/ SelectUE \/ ResolveSrcIp \/ UsageError
    \/ Probe \/ Launch \/ LaunchFails \/ InitCount \/ ReadRecord \/ ReadEOF
    \/ Count \/ PrintLine \/ Wait \/ Notice
    \/ HSummary \/ HTerminate \/ HWaitDone \/ HWaitTimeout \/ HKill

Next ==
    \/ MainStep
    \/ SelectQuit \/ Interrupt
    \/ Emit \/ LimitExit \/ ChildFail \/ TermExit
    \/ Terminated

Spec == Init /\ [][Next]_vars

\* The main thread runs whenever it can (it is a single thread that only
\* blocks on the pipe, on wait() and at the menu), and tshark honours its
\* '-c' limit; traffic, failures, quitting and SIGINT are the
\* environment's and get no fairness.
FairSpec == Spec /\ WF_vars(MainStep) /\ WF_vars(LimitExit)

-----------------------------------------------------------------------------
(***************************************************************************)
(* Properties.                                                             *)
(***************************************************************************)

PCs == {"check", "resolve", "select", "probe", "banner", "spawned", "read",
        "count", "print", "wait", "notice", "h_summary", "h_term", "h_wait",
        "h_kill", "done"}

\* The records the child can write and the tuples the loop can build.
Records(m) == {Record(p, m) : p \in Packets}
Tuples  == {Decode(Record(p, m), m) : p \in Packets, m \in Modes}
Lines   == [n : Nat, t : Tuples]

TypeOK ==
    /\ args \in ArgChoices
    /\ pc \in PCs
    /\ srcIp \in Addrs \cup {Empty}
    /\ iface \in DOMAIN Traffic \cup {Empty}
    /\ packet_count \in Nat \cup {Unbound}
    /\ cur \in {<<>>} \cup {<<t>> : t \in Tuples}
    /\ lines \in Seq(Lines)
    /\ summary \in Nat \cup {NoSummary} /\ notice \in BOOLEAN
    /\ exitCode \in {NoExit, 0, 1, SigInt}
    /\ intrAt \in PCs \cup {"none"}
    /\ interrupts \in 0..MaxInterrupts
    /\ proc \in {"none", "running", "exited"}
    /\ procExit \in {"none", "limit", "error", "term", "signal", "killed",
                     "sigpipe"}
    /\ termReq \in BOOLEAN
    /\ sent \in Seq(Records(args.mode))
    /\ readPos \in 0..Len(sent)

\* The tuples of the decodable records of s, in order: the k-th is that of
\* the record with exactly k decodable records up to and including it.
DecodedSeq(s) ==
    LET ok == {i \in 1..Len(s) : Decodable(s[i], args.mode)}
        kth(k) == CHOOSE i \in ok : Cardinality({j \in ok : j <= i}) = k
    IN  [k \in 1..Cardinality(ok) |-> Decode(s[kth(k)], args.mode)]

\* What the display should show for the records read so far: line i is
\* the i-th decodable record, numbered i.
Expected ==
    LET ds == DecodedSeq(SubSeq(sent, 1, readPos))
    IN  [i \in 1..Len(ds) |-> [n |-> i, t |-> ds[i]]]

(***************************************************************************)
(* The printed lines, followed by the tuple still being counted or         *)
(* printed (if any), are exactly the decodable records tshark wrote and    *)
(* the read loop took off the pipe: none lost, none repeated, none         *)
(* reordered, and numbered 1, 2, 3, ... by packet_count.  This is the      *)
(* for-loop of run_*_monitor against the child's stdout, across skipped    *)
(* records, a full pipe and an interrupt between 'packet_count += 1' and   *)
(* the print.                                                              *)
(***************************************************************************)
RenderOrder ==
    lines \o [i \in 1..Len(cur) |-> [n |-> Len(lines) + i, t |-> cur[i]]]
        = Expected

(***************************************************************************)
(* Step by step: every step that changes the display appends one line,    *)
(* the tuple of the record the read loop took off tshark's pipe last,      *)
(* numbered one past the line before it.  No step of the main thread,     *)
(* the handler or the child prints a stale tuple, a skipped record or a   *)
(* number out of sequence.                                                 *)
(***************************************************************************)
PrintsRecordRead ==
    [][lines' # lines =>
         /\ readPos \in 1..Len(sent)
         /\ lines' = Append(lines, [n |-> Len(lines) + 1,
                                    t |-> Decode(sent[readPos], args.mode)])]_vars

(***************************************************************************)
(* Scenario C of the spec: with '--count N' and no interrupt, a run that   *)
(* ends because tshark stopped at its limit has printed exactly N lines.   *)
(* It relates the display filter tshark applies to the 'if src and dst'   *)
(* test of the loop: every record that passes the filter must decode.     *)
(***************************************************************************)
LimitYieldsAllLines ==
    (pc = "done" /\ exitCode = 0 /\ intrAt = "none" /\ procExit = "limit")
        => Len(lines) = args.count

(***************************************************************************)
(* Spec section 4.4: once a KeyboardInterrupt has reached the handler of  *)
(* run_*_monitor, the program does not exit leaving tshark running:        *)
(* terminate(), wait(timeout=2) and kill() stop it whichever of them the   *)
(* child answers, so no orphaned capture holds the interface.             *)
(***************************************************************************)
CancelStopsCapture ==
    (pc = "done" /\ intrAt \in CaughtAt) => proc # "running"

(***************************************************************************)
(* The total the KeyboardInterrupt handler prints is the number of packet  *)
(* lines on the screen, except in one window: a Ctrl-C between            *)
(* 'packet_count += 1' and the print of that packet's line reports one     *)
(* packet more than the operator was shown, and only there.               *)
(***************************************************************************)
SummaryCountsShown ==
    summary # NoSummary =>
        \/ summary = Len(lines)
        \/ summary = Len(lines) + 1 /\ intrAt = "print"

(***************************************************************************)
(* With '--count N', once tshark has written its N records the program     *)
(* terminates, interrupted or not: the loop drains the pipe, tshark exits  *)
(* at its limit, wait() returns.                                           *)
(***************************************************************************)
CountLimitEnds ==
    (args.count # 0 /\ Len(sent) = args.count) ~> (pc = "done")

\* Where an interrupt is inside the live capture (run_*_monitor's try).
CaptureAt == {"spawned"} \cup CaughtAt

(***************************************************************************)
(* Spec section 5: an operator interrupt during the live capture prints    *)
(* the summary and exits with status 0.                                    *)
(***************************************************************************)
InterruptExitsZero ==
    (pc = "done" /\ intrAt \in CaptureAt) => (exitCode = 0 /\ summary # NoSummary)

(***************************************************************************)
(* Spec sections 4.6 and 7: a capture engine that fails during the live    *)
(* capture is not reported as a successful run (exit 0, possibly with the  *)
(* "No packets were captured" notice).                                     *)
(***************************************************************************)
CaptureFailureReported ==
    (pc = "done" /\ procExit = "error" /\ intrAt = "none") => exitCode # 0

(***************************************************************************)
(* The docstring: the monitor shows packets sent from the chosen UE: the   *)
(* source of every printed line is src_ip.                                 *)
(***************************************************************************)
RenderedSourceIsTarget ==
    \A i \in DOMAIN lines : lines[i].t.src = srcIp

-----------------------------------------------------------------------------
(***************************************************************************)
(* Refinement.  The monitor implements CaptureTap: the captured packets    *)
(* are the tuples of the decodable records tshark wrote (a record the loop *)
(* skips is not a packet of the display), the display is lines.  Emit of  *)
(* a decodable record is Capture, PrintLine is Show, every other step      *)
(* (reading, counting, the handler, the child's exits) is a stutter.       *)
(***************************************************************************)
Tap == INSTANCE CaptureTap WITH Items <- Tuples,
                                captured <- DecodedSeq(sent),
                                shown <- lines

(***************************************************************************)
(* The numbered lines run_*_monitor prints are, at every step, a growing   *)
(* prefix of the packets tshark captured, each shown once, in order and    *)
(* numbered by its place, across skipped records, the pipe, Ctrl-C and     *)
(* the handler.                                                            *)
(***************************************************************************)
TapRefinement == Tap!Spec
=============================================================================
