---------------------------- MODULE TxRxSampler ----------------------------
(***************************************************************************)
(* scripts/ue_tx_rx_monitor.py: every interval, read each interface's      *)
(* statistics counters and print the difference from the previous reading *)
(* as the rate of the interval.                                            *)
(*                                                                         *)
(* The kernel is the environment: it counts packets on an interface while *)
(* the interface exists; an interface can disappear (its statistics files *)
(* go with it) and be created again with counters from zero, which is     *)
(* what a PacketRusher UE re-registering does to its val* interface.       *)
(* Every counter is a separate read_stat, one file read each, and the     *)
(* kernel may count packets or recreate the interface between any two of  *)
(* them, in the initial reading and in every sample.                      *)
(***************************************************************************)
EXTENDS Naturals, Integers, Sequences, FiniteSets

CONSTANTS
    Candidates,   \* --interfaces, or the val* names found at start
    Count,        \* -n: samples to print, 0 = until Ctrl-C
    MaxSamples,   \* bound: samples in one run
    MaxCtr        \* bound: packets counted on an interface per lifetime

NoIface == "none"

ASSUME SamplerAssumption ==
    /\ IsFiniteSet(Candidates) /\ NoIface \notin Candidates
    /\ Count \in Nat /\ MaxSamples \in Nat /\ MaxCtr \in Nat

\* The counters of an interface in the order main() reads them (rx_packets,
\* rx_bytes, tx_packets, tx_bytes); two stand for the four.  A packet adds
\* one to each: its size does not matter to the deltas.
Stats == <<"packets", "bytes">>
K == 1..Len(Stats)

VARIABLES
    present,   \* interface -> its /sys/class/net entry exists
    ctr,       \* interface -> counter -> the kernel's value
    pc,        \* "start", "init", "loop", "read" or "done"
    mon,       \* the interfaces kept after the existence filter
    prev,      \* interface -> counter -> the reading deltas are taken from
    sample,    \* the sample number of the current table
    rows,      \* interface -> its row of the current table
    exitCode,  \* the exit status, NoExit while running
    todo,      \* interfaces of the current 'for iface in ifaces' not yet read
    at,        \* the interface being read, or NoIface
    got,       \* its counters read so far: value (None if unreadable) and ghosts
    carried,   \* ghost: interface -> counter -> packets since prev was read
    fresh      \* ghost: interface -> counter -> prev read from this instance

vars == <<present, ctr, pc, mon, prev, sample, rows, exitCode, todo, at, got,
          carried, fresh>>

NoExit == -1
SigInt == 130
None == -1          \* read_stat's None
NoRow == [na |-> TRUE, delta |-> [k \in K |-> 0], carried |-> [k \in K |-> 0],
          fresh |-> [k \in K |-> FALSE]]

Init ==
    /\ present \in [Candidates -> BOOLEAN]
    /\ ctr \in [Candidates -> [K -> 0..MaxCtr]]
    /\ pc = "start"
    /\ mon = {} /\ prev = [i \in Candidates |-> [k \in K |-> 0]]
    /\ sample = 0
    /\ rows = [i \in Candidates |-> NoRow]
    /\ exitCode = NoExit
    /\ todo = {} /\ at = NoIface /\ got = <<>>
    /\ carried = [i \in Candidates |-> [k \in K |-> 0]]
    /\ fresh = [i \in Candidates |-> [k \in K |-> FALSE]]

Exit(code) == pc' = "done" /\ exitCode' = code

\* 'if not ifaces: exit(1)'; keep those that exist; 'if not ifaces: exit(1)'.
Start ==
    /\ pc = "start"
    /\ mon' = {i \in Candidates : present[i]}
    /\ IF mon' = {} THEN Exit(1) /\ UNCHANGED todo
                    ELSE pc' = "init" /\ todo' = mon' /\ UNCHANGED exitCode
    /\ UNCHANGED <<present, ctr, prev, sample, rows, at, got, carried, fresh>>

\* The next interface of 'for iface in ifaces' (the initial reading or a
\* sample), in the list's fixed order.
NextIface ==
    /\ pc \in {"init", "read"} /\ at = NoIface /\ todo # {}
    /\ LET i == CHOOSE j \in todo : TRUE
       IN  at' = i /\ todo' = todo \ {i}
    /\ UNCHANGED <<present, ctr, pc, mon, prev, sample, rows, exitCode, got,
                   carried, fresh>>

\* read_stat(iface, stat): the file's integer, or None when it cannot be
\* read.  The ghosts record the packets counted since prev was read and
\* whether prev came from the instance read now.
ReadStat ==
    /\ pc \in {"init", "read"} /\ at # NoIface /\ Len(got) < Len(Stats)
    /\ LET k == Len(got) + 1
       IN  got' = Append(got, [v |-> IF present[at] THEN ctr[at][k] ELSE None,
                              carried |-> carried[at][k],
                              fresh |-> fresh[at][k], same |-> TRUE])
    /\ UNCHANGED <<present, ctr, pc, mon, prev, sample, rows, exitCode, todo,
                   at, carried, fresh>>

\* The ghosts restart at the read of the values now in prev: the packets
\* counted since then, and whether prev is of the instance read.
Restart(i, ok) ==
    /\ fresh' = [fresh EXCEPT ![i] = [k \in K |-> k \in ok /\ got[k].same]]
    /\ carried' = [carried EXCEPT ![i] = [k \in K |-> @[k] - got[k].carried]]

\* prev is taken from what was read: the counters in ok keep their value
\* read, the others become 0.
Taken(i, ok) ==
    /\ prev' = [prev EXCEPT ![i] = [k \in K |-> IF k \in ok THEN got[k].v
                                                            ELSE 0]]
    /\ Restart(i, ok)

\* prev[iface] = (read_stat(...) or 0, ...): each unreadable counter is 0.
InitStore ==
    /\ pc = "init" /\ at # NoIface /\ Len(got) = Len(Stats)
    /\ Taken(at, {k \in K : got[k].v # None})
    /\ at' = NoIface /\ got' = <<>>
    /\ UNCHANGED <<present, ctr, pc, mon, sample, rows, exitCode, todo>>

\* Every interface has its initial reading: the sample loop starts.
InitDone ==
    /\ pc = "init" /\ at = NoIface /\ todo = {}
    /\ pc' = "loop"
    /\ UNCHANGED <<present, ctr, mon, prev, sample, rows, exitCode, todo, at,
                   got, carried, fresh>>

\* time.sleep(interval); sample += 1; rows = []: a pass over the interfaces.
Tick ==
    /\ pc = "loop" /\ sample < MaxSamples
    /\ sample' = sample + 1
    /\ rows' = [i \in Candidates |-> NoRow]
    /\ todo' = mon /\ pc' = "read"
    /\ UNCHANGED <<present, ctr, mon, prev, exitCode, at, got, carried, fresh>>

\* The row of the interface read: 'N/A' if a counter was unreadable, else
\* each counter's delta from prev (printed as a rate over args.interval).
Row ==
    IF \E k \in K : got[k].v = None
    THEN NoRow
    ELSE [na |-> FALSE, delta |-> [k \in K |-> got[k].v - prev[at][k]],
          carried |-> [k \in K |-> got[k].carried],
          fresh |-> [k \in K |-> got[k].fresh]]

\* Mutant: prev is stored from a second read of the files
\* (prev[iface] = tuple(read_stat(iface, s) for s in stats)), not from
\* the values the row was computed from.
CommitReread ==
    /\ pc = "read" /\ at # NoIface /\ Len(got) = Len(Stats)
    /\ rows' = [rows EXCEPT ![at] = Row]
    /\ IF Row.na THEN UNCHANGED <<prev, fresh, carried>>
                 ELSE /\ Restart(at, K)
                      /\ prev' = [prev EXCEPT ![at] = [k \in K |->
                                    IF present[at] THEN ctr[at][k] ELSE 0]]
    /\ at' = NoIface /\ got' = <<>>
    /\ UNCHANGED <<present, ctr, pc, mon, sample, exitCode, todo>>

\* The row is appended; 'if None in (...): continue' leaves prev alone,
\* otherwise prev[iface] = (rxp, rxb, txp, txb), the values read.
Commit ==
    /\ pc = "read" /\ at # NoIface /\ Len(got) = Len(Stats)
    /\ rows' = [rows EXCEPT ![at] = Row]
    /\ IF Row.na THEN UNCHANGED <<prev, fresh, carried>>
                 ELSE Taken(at, K)
    /\ at' = NoIface /\ got' = <<>>
    /\ UNCHANGED <<present, ctr, pc, mon, sample, exitCode, todo>>

\* Mutant: the -n test is 'sample > args.count'.
PrintTableLateStop ==
    /\ pc = "read" /\ at = NoIface /\ todo = {}
    /\ IF Count # 0 /\ sample > Count THEN Exit(0)
                                     ELSE pc' = "loop" /\ UNCHANGED exitCode
    /\ UNCHANGED <<present, ctr, mon, prev, sample, rows, todo, at, got,
                   carried, fresh>>

\* print_table(rows, ...); 'if args.count and sample >= args.count: break'.
PrintTable ==
    /\ pc = "read" /\ at = NoIface /\ todo = {}
    /\ IF Count # 0 /\ sample >= Count THEN Exit(0)
                                      ELSE pc' = "loop" /\ UNCHANGED exitCode
    /\ UNCHANGED <<present, ctr, mon, prev, sample, rows, todo, at, got,
                   carried, fresh>>

\* Ctrl-C: in the loop 'Stopped by user' and exit 0; before it, uncaught.
Interrupt ==
    /\ pc # "done"
    /\ Exit(IF pc \in {"loop", "read"} THEN 0 ELSE SigInt)
    /\ UNCHANGED <<present, ctr, mon, prev, sample, rows, todo, at, got,
                   carried, fresh>>

\* The kernel counts a packet on an existing interface.
Traffic(i) ==
    /\ present[i]
    /\ \A k \in K : ctr[i][k] < MaxCtr /\ carried[i][k] < MaxCtr
    /\ ctr' = [ctr EXCEPT ![i] = [k \in K |-> @[k] + 1]]
    /\ carried' = [carried EXCEPT ![i] = [k \in K |-> @[k] + 1]]
    /\ UNCHANGED <<present, pc, mon, prev, sample, rows, exitCode, todo, at,
                   got, fresh>>

\* The interface is deleted: its statistics files are gone.
Vanish(i) ==
    /\ present[i]
    /\ present' = [present EXCEPT ![i] = FALSE]
    /\ UNCHANGED <<ctr, pc, mon, prev, sample, rows, exitCode, todo, at, got,
                   carried, fresh>>

\* The interface is created again, counters from zero: the values read
\* from it so far, and prev, are of the old instance.
Recreate(i) ==
    /\ ~present[i]
    /\ present' = [present EXCEPT ![i] = TRUE]
    /\ ctr' = [ctr EXCEPT ![i] = [k \in K |-> 0]]
    /\ fresh' = [fresh EXCEPT ![i] = [k \in K |-> FALSE]]
    /\ got' = IF at = i THEN [j \in DOMAIN got |-> [got[j] EXCEPT !.same = FALSE]]
                        ELSE got
    /\ UNCHANGED <<pc, mon, prev, sample, rows, exitCode, todo, at, carried>>

\* The run is over (or the sample bound reached); the kernel goes on.
Stopped ==
    /\ pc = "done" \/ (pc = "loop" /\ sample = MaxSamples)
    /\ UNCHANGED vars

\* The steps of main().
MainStep ==
    \/ Start \/ NextIface \/ ReadStat \/ InitStore \/ InitDone \/ Tick
    \/ Commit \/ PrintTable

Next ==
    \/ MainStep \/ Interrupt
    \/ \E i \in Candidates : Traffic(i) \/ Vanish(i) \/ Recreate(i)
    \/ Stopped

Spec == Init /\ [][Next]_vars

-----------------------------------------------------------------------------
Got == [v : 0..MaxCtr \cup {None}, carried : 0..MaxCtr, fresh : BOOLEAN,
        same : BOOLEAN]
Rows == [na : BOOLEAN, delta : [K -> -MaxCtr..MaxCtr],
         carried : [K -> 0..MaxCtr], fresh : [K -> BOOLEAN]]

TypeOK ==
    /\ present \in [Candidates -> BOOLEAN]
    /\ ctr \in [Candidates -> [K -> 0..MaxCtr]]
    /\ pc \in {"start", "init", "loop", "read", "done"}
    /\ mon \in SUBSET Candidates
    /\ prev \in [Candidates -> [K -> 0..MaxCtr]]
    /\ sample \in 0..MaxSamples
    /\ rows \in [Candidates -> Rows]
    /\ exitCode \in {NoExit, 0, 1, SigInt}
    /\ todo \in SUBSET Candidates
    /\ at \in Candidates \cup {NoIface}
    /\ got \in Seq(Got) /\ Len(got) <= Len(Stats)
    /\ carried \in [Candidates -> [K -> 0..MaxCtr]]
    /\ fresh \in [Candidates -> [K -> BOOLEAN]]

(***************************************************************************)
(* Each counter is read by its own read_stat, with traffic and interface  *)
(* recreation possible between any two reads.  Whenever the previous      *)
(* reading of a counter came from the instance the counter was read from  *)
(* now, the delta printed for it is exactly the packets the kernel counted *)
(* between the two reads: prev is updated on every complete read, with the *)
(* values read (not later ones), and on no other.                         *)
(***************************************************************************)
RateExactWhenFresh ==
    \A i \in mon : ~rows[i].na =>
        \A k \in K : rows[i].fresh[k] => rows[i].delta[k] = rows[i].carried[k]

(***************************************************************************)
(* Spec section 1: each table reports the interface's traffic of that     *)
(* interval: every delta printed is the traffic counted since the         *)
(* previous sample.                                                       *)
(***************************************************************************)
RateIsPerInterval ==
    \A i \in mon : ~rows[i].na => \A k \in K : rows[i].delta[k] = rows[i].carried[k]

(***************************************************************************)
(* With '-n N' the loop prints at most N tables: the 'sample >= count'    *)
(* test after each table, not one table late.                             *)
(***************************************************************************)
SamplesWithinCount ==
    Count # 0 => sample <= Count
=============================================================================
