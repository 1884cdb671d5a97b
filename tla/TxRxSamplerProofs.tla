------------------------- MODULE TxRxSamplerProofs -------------------------
(***************************************************************************)
(* Proofs about TxRxSampler for every set of interfaces, -n and bound.     *)
(***************************************************************************)
EXTENDS TxRxSampler, TLAPS

(***************************************************************************)
(* The deltas are right because of three facts about the counters and the *)
(* ghosts, none of which RateExactWhenFresh states: while prev is of the   *)
(* current instance, the kernel's counter is prev plus the packets counted *)
(* since; a value read and not yet stored is the counter at its read (so  *)
(* the counter is that value plus what came after, while the instance is *)
(* the same); and a value read while prev was fresh is prev plus the      *)
(* packets counted up to the read.                                        *)
(***************************************************************************)
CounterFacts ==
    \A i \in Candidates, k \in K :
        fresh[i][k] => ctr[i][k] = prev[i][k] + carried[i][k]

GotFacts ==
    /\ got # <<>> => at \in Candidates
    /\ \A j \in DOMAIN got :
          /\ got[j].carried <= carried[at][j]
          /\ (got[j].same /\ got[j].v # None)
                 => ctr[at][j] = got[j].v + (carried[at][j] - got[j].carried)
          /\ (got[j].fresh /\ got[j].v # None)
                 => got[j].v = prev[at][j] + got[j].carried

RowFacts ==
    \A i \in Candidates : ~rows[i].na =>
        \A k \in K : rows[i].fresh[k] => rows[i].delta[k] = rows[i].carried[k]

\* -n: a table is printed only while sample <= Count, and the loop is left
\* before a sample beyond it.
CountFacts ==
    Count # 0 => /\ sample <= Count
                 /\ pc \in {"start", "init", "loop"} => sample < Count

SInv == TypeOK /\ CounterFacts /\ GotFacts /\ RowFacts /\ CountFacts

-----------------------------------------------------------------------------
\* Two counters stand for the four.
LEMMA StatsIndex == Len(Stats) = 2 /\ K = 1..2
BY DEF Stats, K

LEMMA InitSInv == Init => SInv
<1> SUFFICES ASSUME Init PROVE SInv
    OBVIOUS
<1> USE StatsIndex, SamplerAssumption
<1>1. NoRow \in Rows
    BY DEF NoRow, Rows
<1>2. TypeOK
    BY <1>1 DEF Init, TypeOK, NoExit
<1>3. CounterFacts /\ GotFacts /\ RowFacts /\ CountFacts
    BY DEF Init, CounterFacts, GotFacts, RowFacts, CountFacts, NoRow
<1>4. QED
    BY <1>2, <1>3 DEF SInv

\* TypeOK in two parts: the data main() and the kernel change, and the
\* control state of main().
DataOK ==
    /\ present \in [Candidates -> BOOLEAN]
    /\ ctr \in [Candidates -> [K -> 0..MaxCtr]]
    /\ prev \in [Candidates -> [K -> 0..MaxCtr]]
    /\ rows \in [Candidates -> Rows]
    /\ got \in Seq(Got) /\ Len(got) <= Len(Stats)
    /\ carried \in [Candidates -> [K -> 0..MaxCtr]]
    /\ fresh \in [Candidates -> [K -> BOOLEAN]]

CtlOK ==
    /\ pc \in {"start", "init", "loop", "read", "done"}
    /\ mon \in SUBSET Candidates
    /\ sample \in 0..MaxSamples
    /\ exitCode \in {NoExit, 0, 1, SigInt}
    /\ todo \in SUBSET Candidates
    /\ at \in Candidates \cup {NoIface}

LEMMA TypeParts == TypeOK <=> DataOK /\ CtlOK
BY DEF TypeOK, DataOK, CtlOK

LEMMA TypePartsNext == TypeOK' <=> DataOK' /\ CtlOK'
BY DEF TypeOK, DataOK, CtlOK

LEMMA DataOKUnchanged ==
    ASSUME DataOK, UNCHANGED <<present, ctr, prev, rows, got, carried, fresh>>
    PROVE  DataOK'
BY DEF DataOK

LEMMA CtlOKUnchanged ==
    ASSUME CtlOK, UNCHANGED <<pc, mon, sample, exitCode, todo, at>>
    PROVE  CtlOK'
BY DEF CtlOK

\* The facts about the counters, the reads and the rows depend only on
\* these variables.
LEMMA DataUnchanged ==
    ASSUME SInv, UNCHANGED <<ctr, prev, rows, at, got, carried, fresh>>
    PROVE  CounterFacts' /\ GotFacts' /\ RowFacts'
BY DEF SInv, CounterFacts, GotFacts, RowFacts

\* A value read is a record of Got.
LEMMA GotElem ==
    ASSUME got \in Seq(Got), NEW j \in 1..Len(got)
    PROVE  got[j] \in Got
OBVIOUS

\* Storing what was read into prev keeps the counters' facts: for a
\* counter read from the current instance, the counter is the value read
\* plus the packets since, and those are what carried restarts from.
LEMMA TakenFacts ==
    ASSUME SInv, at \in Candidates, Len(got) = Len(Stats),
           NEW ok \in SUBSET K, \A k \in ok : got[k].v # None,
           Taken(at, ok), UNCHANGED ctr
    PROVE  /\ prev' \in [Candidates -> [K -> 0..MaxCtr]]
           /\ carried' \in [Candidates -> [K -> 0..MaxCtr]]
           /\ fresh' \in [Candidates -> [K -> BOOLEAN]]
           /\ CounterFacts'
<1> USE StatsIndex, SamplerAssumption
<1>1. DataOK /\ GotFacts /\ CounterFacts
    BY TypeParts DEF SInv
<1>0. /\ prev \in [Candidates -> [K -> 0..MaxCtr]]
      /\ carried \in [Candidates -> [K -> 0..MaxCtr]]
      /\ fresh \in [Candidates -> [K -> BOOLEAN]]
      /\ got \in Seq(Got)
    BY <1>1 DEF DataOK
<1>2. ASSUME NEW k \in K PROVE got[k] \in Got
    <2>1. k \in 1..Len(got)
        OBVIOUS
    <2>2. QED
        BY <1>0, <2>1, GotElem
<1>3. ASSUME NEW k \in ok PROVE got[k].v \in 0..MaxCtr
    <2>1. got[k] \in Got
        BY <1>2
    <2>2. QED
        BY <2>1 DEF Got, None
<1>4. prev' \in [Candidates -> [K -> 0..MaxCtr]]
    <2> DEFINE f == [k \in K |-> IF k \in ok THEN got[k].v ELSE 0]
    <2>1. f \in [K -> 0..MaxCtr]
        <3>1. \A k \in K : (IF k \in ok THEN got[k].v ELSE 0) \in 0..MaxCtr
            BY <1>3
        <3>2. QED
            BY <3>1, Zenon
    <2>2. prev' = [prev EXCEPT ![at] = f]
        BY DEF Taken
    <2>3. QED
        BY <1>0, <2>1, <2>2
<1>5. carried' \in [Candidates -> [K -> 0..MaxCtr]]
    <2>1. ASSUME NEW k \in K PROVE got[k].carried \in 0..carried[at][k]
        <3>1. got[k] \in Got
            BY <1>2
        <3>2. k \in DOMAIN got
            BY <1>0
        <3>3. QED
            BY <1>1, <3>1, <3>2 DEF GotFacts, Got
    <2> DEFINE f == [k \in K |-> carried[at][k] - got[k].carried]
    <2>2. f \in [K -> 0..MaxCtr]
        BY <1>0, <2>1
    <2>3. carried' = [carried EXCEPT ![at] = f]
        BY <1>0 DEF Taken, Restart
    <2>4. QED
        BY <1>0, <2>2, <2>3
<1>6. fresh' \in [Candidates -> [K -> BOOLEAN]]
    <2> DEFINE f == [k \in K |-> k \in ok /\ got[k].same]
    <2>1. f \in [K -> BOOLEAN]
        OBVIOUS
    <2>2. fresh' = [fresh EXCEPT ![at] = f]
        BY DEF Taken, Restart
    <2>3. QED
        BY <1>0, <2>1, <2>2
<1>7. CounterFacts'
    <2>1. SUFFICES ASSUME NEW i \in Candidates, NEW k \in K, fresh'[i][k]
                   PROVE  ctr'[i][k] = prev'[i][k] + carried'[i][k]
        BY DEF CounterFacts
    <2>2. CASE i = at
        <3>0. fresh'[at][k] = (k \in ok /\ got[k].same)
            BY <1>0 DEF Taken, Restart
        <3>1. k \in ok /\ got[k].same
            BY <2>1, <2>2, <3>0, Zenon
        <3>2. ctr[at][k] = got[k].v + (carried[at][k] - got[k].carried)
            BY <1>1, <3>1 DEF GotFacts
        <3>3. QED
            BY <1>0, <2>2, <3>1, <3>2 DEF Taken, Restart
    <2>3. CASE i # at
        BY <1>0, <1>1, <2>1, <2>3 DEF Taken, Restart, CounterFacts
    <2>4. QED
        BY <2>2, <2>3
<1>8. QED
    BY <1>4, <1>5, <1>6, <1>7

LEMMA NextSInv == SInv /\ [Next]_vars => SInv'
<1> SUFFICES ASSUME SInv, [Next]_vars PROVE SInv'
    OBVIOUS
<1> USE StatsIndex, SamplerAssumption
<1>0. NoRow \in Rows
    BY DEF NoRow, Rows
<1>20. DataOK /\ CtlOK
    BY TypeParts DEF SInv
<1>21. SUFFICES DataOK' /\ CtlOK' /\ CounterFacts' /\ GotFacts' /\ RowFacts'
                /\ CountFacts'
    BY TypePartsNext DEF SInv
<1>1. CASE Start
    <2>1. CounterFacts' /\ GotFacts' /\ RowFacts'
        BY <1>1, DataUnchanged DEF Start
    <2>2. DataOK'
        BY <1>1, <1>20, DataOKUnchanged DEF Start
    <2>3. CtlOK'
        BY <1>1, <1>20 DEF Start, Exit, CtlOK, NoExit, SigInt
    <2>4. CountFacts'
        BY <1>1 DEF Start, Exit, SInv, CountFacts
    <2>5. QED
        BY <2>1, <2>2, <2>3, <2>4
<1>2. CASE NextIface
    <2>1. PICK i \in todo : i = CHOOSE j \in todo : TRUE
        BY <1>2 DEF NextIface
    <2>2. at' = i /\ todo' = todo \ {i} /\ got = <<>>
        <3>1. at = NoIface
            BY <1>2 DEF NextIface
        <3>2. got = <<>>
            BY <3>1 DEF SInv, GotFacts
        <3>3. QED
            BY <1>2, <2>1, <3>2 DEF NextIface
    <2>3. DataOK' /\ CtlOK'
        <3>1. DataOK'
            BY <1>2, <1>20, DataOKUnchanged DEF NextIface
        <3>2. CtlOK'
            BY <1>2, <1>20, <2>1, <2>2 DEF NextIface, CtlOK
        <3>3. QED
            BY <3>1, <3>2
    <2>4. GotFacts'
        BY <1>2, <2>2 DEF NextIface, GotFacts
    <2>5. CounterFacts' /\ RowFacts' /\ CountFacts'
        BY <1>2 DEF NextIface, SInv, CounterFacts, RowFacts, CountFacts
    <2>6. QED
        BY <2>3, <2>4, <2>5
<1>3. CASE ReadStat
    <2> DEFINE k == Len(got) + 1
               r == [v |-> IF present[at] THEN ctr[at][k] ELSE None,
                     carried |-> carried[at][k], fresh |-> fresh[at][k],
                     same |-> TRUE]
    <2>1. /\ at \in Candidates /\ k \in K /\ got' = Append(got, r)
          /\ UNCHANGED <<present, ctr, pc, mon, prev, sample, rows, exitCode,
                         todo, at, carried, fresh>>
        BY <1>3, <1>20 DEF ReadStat, CtlOK, DataOK
    <2>2. r \in Got
        BY <1>20, <2>1 DEF DataOK, Got, None
    <2>3. DataOK'
        BY <1>20, <2>1, <2>2 DEF DataOK
    <2>4. CtlOK'
        BY <1>20, <2>1, CtlOKUnchanged
    <2>5. GotFacts'
        <3>1. ASSUME NEW j \in DOMAIN got'
              PROVE  /\ got'[j].carried <= carried'[at'][j]
                     /\ (got'[j].same /\ got'[j].v # None)
                            => ctr'[at'][j] = got'[j].v + (carried'[at'][j]
                                                          - got'[j].carried)
                     /\ (got'[j].fresh /\ got'[j].v # None)
                            => got'[j].v = prev'[at'][j] + got'[j].carried
            <4>1. CASE j \in DOMAIN got
                BY <2>1, <3>1, <4>1 DEF SInv, GotFacts
            <4>2. CASE j = k
                <5>1. got'[j] = r
                    BY <1>20, <2>1, <4>2 DEF DataOK
                <5>2. r.fresh /\ r.v # None => r.v = prev[at][k] + r.carried
                    BY <2>1 DEF SInv, CounterFacts, None
                <5>3. QED
                    BY <1>20, <2>1, <4>2, <5>1, <5>2 DEF DataOK
            <4>3. QED
                BY <1>20, <2>1, <4>1, <4>2 DEF DataOK
        <3>2. QED
            BY <2>1, <3>1 DEF GotFacts
    <2>6. CounterFacts' /\ RowFacts' /\ CountFacts'
        BY <2>1 DEF SInv, CounterFacts, RowFacts, CountFacts
    <2>7. QED
        BY <2>3, <2>4, <2>5, <2>6
<1>4. CASE InitStore
    <2> DEFINE ok == {k \in K : got[k].v # None}
    <2>1. /\ at \in Candidates /\ Len(got) = Len(Stats) /\ Taken(at, ok)
          /\ at' = NoIface /\ got' = <<>>
          /\ UNCHANGED <<present, ctr, pc, mon, sample, rows, exitCode, todo>>
        BY <1>4, <1>20 DEF InitStore, CtlOK
    <2>2. /\ prev' \in [Candidates -> [K -> 0..MaxCtr]]
          /\ carried' \in [Candidates -> [K -> 0..MaxCtr]]
          /\ fresh' \in [Candidates -> [K -> BOOLEAN]]
          /\ CounterFacts'
        BY <2>1, TakenFacts
    <2>3. DataOK'
        BY <1>20, <2>1, <2>2 DEF DataOK
    <2>4. CtlOK'
        BY <1>20, <2>1 DEF CtlOK
    <2>5. GotFacts' /\ RowFacts' /\ CountFacts'
        BY <2>1 DEF SInv, GotFacts, RowFacts, CountFacts
    <2>6. QED
        BY <2>2, <2>3, <2>4, <2>5
<1>5. CASE InitDone
    <2>1. CounterFacts' /\ GotFacts' /\ RowFacts'
        BY <1>5, DataUnchanged DEF InitDone
    <2>2. DataOK'
        BY <1>5, <1>20, DataOKUnchanged DEF InitDone
    <2>3. CtlOK'
        BY <1>5, <1>20 DEF InitDone, CtlOK
    <2>4. CountFacts'
        BY <1>5 DEF InitDone, SInv, CountFacts
    <2>5. QED
        BY <2>1, <2>2, <2>3, <2>4
<1>6. CASE Tick
    <2>1. CounterFacts' /\ GotFacts'
        BY <1>6 DEF Tick, SInv, CounterFacts, GotFacts
    <2>2. RowFacts'
        BY <1>6 DEF Tick, RowFacts, NoRow
    <2>3. DataOK'
        BY <1>0, <1>6, <1>20 DEF Tick, DataOK
    <2>4. CtlOK'
        BY <1>6, <1>20 DEF Tick, CtlOK
    <2>5. CountFacts'
        BY <1>6, <1>20 DEF Tick, SInv, CountFacts, CtlOK
    <2>6. QED
        BY <2>1, <2>2, <2>3, <2>4, <2>5
<1>7. CASE Commit
    <2>1. /\ at \in Candidates /\ Len(got) = Len(Stats)
          /\ rows' = [rows EXCEPT ![at] = Row]
          /\ IF Row.na THEN UNCHANGED <<prev, fresh, carried>> ELSE Taken(at, K)
          /\ at' = NoIface /\ got' = <<>>
          /\ UNCHANGED <<present, ctr, pc, mon, sample, exitCode, todo>>
        BY <1>7, <1>20 DEF Commit, CtlOK
    <2>2. ASSUME NEW k \in K PROVE got[k] \in Got
        BY <1>20, <2>1, GotElem DEF DataOK
    <2>3. Row.na <=> \E k \in K : got[k].v = None
        BY DEF Row, NoRow
    <2>4. ~Row.na => /\ \A k \in K : got[k].v # None
                     /\ \A k \in K : Row.fresh[k] = got[k].fresh
                     /\ \A k \in K : Row.delta[k] = got[k].v - prev[at][k]
                     /\ \A k \in K : Row.carried[k] = got[k].carried
        BY <2>3 DEF Row
    <2>5. Row \in Rows
        <3>1. CASE Row.na
            BY <1>0, <2>3, <3>1 DEF Row
        <3>2. CASE ~Row.na
            <4>1. \A k \in K : got[k].v \in 0..MaxCtr /\ got[k].carried \in 0..MaxCtr
                BY <2>2, <2>4, <3>2 DEF Got, None
            <4>2. \A k \in K : prev[at][k] \in 0..MaxCtr
                BY <1>20, <2>1 DEF DataOK
            <4>3. Row = [na |-> FALSE, delta |-> [k \in K |-> got[k].v - prev[at][k]],
                         carried |-> [k \in K |-> got[k].carried],
                         fresh |-> [k \in K |-> got[k].fresh]]
                BY <2>3, <3>2 DEF Row
            <4>4. \A k \in K : got[k].fresh \in BOOLEAN
                BY <2>2 DEF Got
            <4>5. [k \in K |-> got[k].v - prev[at][k]] \in [K -> -MaxCtr..MaxCtr]
                BY <4>1, <4>2
            <4>6. [k \in K |-> got[k].carried] \in [K -> 0..MaxCtr]
                BY <4>1
            <4>7. [k \in K |-> got[k].fresh] \in [K -> BOOLEAN]
                BY <4>4
            <4>8. QED
                BY <4>3, <4>5, <4>6, <4>7 DEF Rows
        <3>3. QED
            BY <3>1, <3>2
    <2>6. RowFacts'
        <3>1. SUFFICES ASSUME NEW i \in Candidates, ~rows'[i].na, NEW k \in K,
                              rows'[i].fresh[k]
                       PROVE  rows'[i].delta[k] = rows'[i].carried[k]
            BY DEF RowFacts
        <3>2. CASE i = at
            <4>1. rows'[i] = Row
                BY <1>20, <2>1, <3>2 DEF DataOK
            <4>2. got[k].fresh /\ got[k].v # None
                BY <2>4, <3>1, <4>1
            <4>3. got[k].v = prev[at][k] + got[k].carried
                BY <1>20, <2>1, <4>2 DEF SInv, GotFacts, DataOK
            <4>4. got[k].v \in Int /\ prev[at][k] \in Int /\ got[k].carried \in Int
                <5>1. got[k] \in Got
                    BY <2>2
                <5>2. prev[at][k] \in Int
                    BY <1>20, <2>1 DEF DataOK
                <5>3. QED
                    BY <5>1, <5>2 DEF Got, None
            <4>5. Row.delta[k] = got[k].v - prev[at][k] /\ Row.carried[k] = got[k].carried
                BY <2>4, <3>1, <4>1
            <4>6. QED
                BY <4>1, <4>3, <4>4, <4>5
        <3>3. CASE i # at
            BY <1>20, <2>1, <3>1, <3>3 DEF SInv, RowFacts, DataOK
        <3>4. QED
            BY <3>2, <3>3
    <2>7. /\ prev' \in [Candidates -> [K -> 0..MaxCtr]]
          /\ carried' \in [Candidates -> [K -> 0..MaxCtr]]
          /\ fresh' \in [Candidates -> [K -> BOOLEAN]]
          /\ CounterFacts'
        <3>1. CASE Row.na
            BY <1>20, <2>1, <3>1 DEF SInv, CounterFacts, DataOK
        <3>2. CASE ~Row.na
            <4>1. Taken(at, K) /\ \A k \in K : got[k].v # None
                BY <2>1, <2>4, <3>2
            <4>2. QED
                BY <2>1, <4>1, TakenFacts
        <3>3. QED
            BY <3>1, <3>2
    <2>8. DataOK'
        <3>1. rows' \in [Candidates -> Rows]
            BY <1>20, <2>1, <2>5 DEF DataOK
        <3>2. got' \in Seq(Got) /\ Len(got') <= Len(Stats)
            BY <2>1
        <3>3. QED
            BY <1>20, <2>1, <2>7, <3>1, <3>2 DEF DataOK
    <2>9. CtlOK'
        BY <1>20, <2>1 DEF CtlOK
    <2>10. GotFacts' /\ CountFacts'
        BY <2>1 DEF SInv, GotFacts, CountFacts
    <2>11. QED
        BY <2>6, <2>7, <2>8, <2>9, <2>10
<1>8. CASE PrintTable
    <2>1. CounterFacts' /\ GotFacts' /\ RowFacts'
        BY <1>8, DataUnchanged DEF PrintTable
    <2>2. DataOK'
        BY <1>8, <1>20, DataOKUnchanged DEF PrintTable
    <2>3. CtlOK'
        BY <1>8, <1>20 DEF PrintTable, Exit, CtlOK
    <2>4. CountFacts'
        BY <1>8, <1>20 DEF PrintTable, Exit, SInv, CountFacts, CtlOK
    <2>5. QED
        BY <2>1, <2>2, <2>3, <2>4
<1>9. CASE Interrupt
    <2>1. CounterFacts' /\ GotFacts' /\ RowFacts'
        BY <1>9, DataUnchanged DEF Interrupt
    <2>2. DataOK'
        BY <1>9, <1>20, DataOKUnchanged DEF Interrupt
    <2>3. CtlOK'
        BY <1>9, <1>20 DEF Interrupt, Exit, CtlOK, SigInt
    <2>4. CountFacts'
        BY <1>9 DEF Interrupt, Exit, SInv, CountFacts
    <2>5. QED
        BY <2>1, <2>2, <2>3, <2>4
<1>10. ASSUME NEW i \in Candidates, Traffic(i) PROVE SInv'
    <2>1. /\ \A k \in K : ctr[i][k] < MaxCtr /\ carried[i][k] < MaxCtr
          /\ ctr' = [ctr EXCEPT ![i] = [k \in K |-> ctr[i][k] + 1]]
          /\ carried' = [carried EXCEPT ![i] = [k \in K |-> carried[i][k] + 1]]
          /\ UNCHANGED <<present, pc, mon, prev, sample, rows, exitCode, todo,
                         at, got, fresh>>
        BY <1>10, <1>20 DEF Traffic, DataOK
    <2>2. /\ ctr' \in [Candidates -> [K -> 0..MaxCtr]]
          /\ carried' \in [Candidates -> [K -> 0..MaxCtr]]
        <3>1. /\ [k \in K |-> ctr[i][k] + 1] \in [K -> 0..MaxCtr]
              /\ [k \in K |-> carried[i][k] + 1] \in [K -> 0..MaxCtr]
            BY <1>20, <2>1 DEF DataOK
        <3>2. QED
            BY <1>20, <2>1, <3>1 DEF DataOK
    <2>3. DataOK' /\ CtlOK'
        BY <1>20, <2>1, <2>2, CtlOKUnchanged DEF DataOK
    <2>4. CounterFacts'
        <3>1. SUFFICES ASSUME NEW c \in Candidates, NEW k \in K, fresh'[c][k]
                       PROVE  ctr'[c][k] = prev'[c][k] + carried'[c][k]
            BY DEF CounterFacts
        <3>2. ctr[c][k] = prev[c][k] + carried[c][k]
            BY <2>1, <3>1 DEF SInv, CounterFacts
        <3>3. CASE c = i
            <4>1. ctr'[c][k] = ctr[c][k] + 1 /\ carried'[c][k] = carried[c][k] + 1
                BY <1>20, <2>1, <3>3 DEF DataOK
            <4>2. ctr[c][k] \in Int /\ carried[c][k] \in Int /\ prev[c][k] \in Int
                BY <1>20 DEF DataOK
            <4>3. QED
                BY <2>1, <3>2, <4>1, <4>2
        <3>4. CASE c # i
            <4>1. ctr'[c][k] = ctr[c][k] /\ carried'[c][k] = carried[c][k]
                BY <1>20, <2>1, <3>4 DEF DataOK
            <4>2. QED
                BY <2>1, <3>2, <4>1
        <3>5. QED
            BY <3>3, <3>4
    <2>5. GotFacts'
        <3>1. SUFFICES ASSUME NEW j \in DOMAIN got
                       PROVE  /\ got[j].carried <= carried'[at][j]
                              /\ (got[j].same /\ got[j].v # None)
                                   => ctr'[at][j] = got[j].v + (carried'[at][j]
                                                               - got[j].carried)
            BY <2>1 DEF SInv, GotFacts
        <3>2. /\ at \in Candidates /\ j \in K /\ got[j] \in Got
              /\ got[j].carried <= carried[at][j]
              /\ (got[j].same /\ got[j].v # None)
                   => ctr[at][j] = got[j].v + (carried[at][j] - got[j].carried)
            <4>1. got # <<>> /\ j \in 1..Len(got)
                BY <1>20 DEF DataOK
            <4>2. at \in Candidates
                BY <4>1 DEF SInv, GotFacts
            <4>3. j \in K
                BY <1>20, <4>1 DEF DataOK
            <4>4. got[j] \in Got
                BY <1>20, <4>1, GotElem DEF DataOK
            <4>5. QED
                BY <4>2, <4>3, <4>4 DEF SInv, GotFacts
        <3>3. got[j].carried \in Int /\ carried[at][j] \in Int /\ ctr[at][j] \in Int
              /\ (got[j].v # None => got[j].v \in Int)
            <4>1. carried[at][j] \in Int /\ ctr[at][j] \in Int
                BY <1>20, <3>2 DEF DataOK
            <4>2. got[j].carried \in Int /\ (got[j].v # None => got[j].v \in Int)
                BY <3>2 DEF Got, None
            <4>3. QED
                BY <4>1, <4>2
        <3>4. CASE at = i
            <4>1. ctr'[at][j] = ctr[at][j] + 1 /\ carried'[at][j] = carried[at][j] + 1
                BY <1>20, <2>1, <3>2, <3>4 DEF DataOK
            <4>2. QED
                BY <3>2, <3>3, <4>1
        <3>5. CASE at # i
            <4>1. ctr'[at][j] = ctr[at][j] /\ carried'[at][j] = carried[at][j]
                BY <1>20, <2>1, <3>2, <3>5 DEF DataOK
            <4>2. QED
                BY <3>2, <4>1
        <3>6. QED
            BY <3>4, <3>5
    <2>6. RowFacts' /\ CountFacts'
        BY <2>1 DEF SInv, RowFacts, CountFacts
    <2>7. QED
        BY <2>3, <2>4, <2>5, <2>6, TypePartsNext DEF SInv
<1>11. ASSUME NEW i \in Candidates, Vanish(i) PROVE SInv'
    <2>1. CounterFacts' /\ GotFacts' /\ RowFacts'
        BY <1>11, DataUnchanged DEF Vanish
    <2>2. DataOK'
        BY <1>11, <1>20 DEF Vanish, DataOK
    <2>3. CtlOK'
        BY <1>11, <1>20, CtlOKUnchanged DEF Vanish
    <2>4. CountFacts'
        BY <1>11 DEF Vanish, SInv, CountFacts
    <2>5. QED
        BY <2>1, <2>2, <2>3, <2>4, TypePartsNext DEF SInv
<1>12. ASSUME NEW i \in Candidates, Recreate(i) PROVE SInv'
    <2>1. /\ ctr' = [ctr EXCEPT ![i] = [k \in K |-> 0]]
          /\ fresh' = [fresh EXCEPT ![i] = [k \in K |-> FALSE]]
          /\ got' = IF at = i THEN [j \in DOMAIN got |-> [got[j] EXCEPT !.same = FALSE]]
                              ELSE got
          /\ UNCHANGED <<pc, mon, prev, sample, rows, exitCode, todo, at, carried>>
        BY <1>12 DEF Recreate
    <2>10. ASSUME NEW j \in DOMAIN got
           PROVE  LET r == [got[j] EXCEPT !.same = FALSE]
                  IN  /\ r.v = got[j].v /\ r.carried = got[j].carried
                      /\ r.fresh = got[j].fresh /\ r.same = FALSE
                      /\ got[j] \in Got /\ r \in Got
        <3>1. got[j] \in Got
            BY <1>20, GotElem DEF DataOK
        <3>2. QED
            BY <3>1, Zenon DEF Got
    <2>2. DOMAIN got' = DOMAIN got /\ \A j \in DOMAIN got :
              /\ got'[j].v = got[j].v /\ got'[j].carried = got[j].carried
              /\ got'[j].fresh = got[j].fresh
              /\ got'[j].same => (got[j].same /\ at # i)
        <3>1. CASE at = i
            <4>1. DOMAIN got' = DOMAIN got
                  /\ \A j \in DOMAIN got : got'[j] = [got[j] EXCEPT !.same = FALSE]
                BY <2>1, <3>1
            <4>2. QED
                BY <2>10, <4>1, Zenon
        <3>2. CASE at # i
            BY <2>1, <3>2
        <3>3. QED
            BY <3>1, <3>2
    <2>3. got' \in Seq(Got) /\ Len(got') = Len(got)
        <3>1. CASE at = i
            <4>1. \A j \in DOMAIN got : got'[j] \in Got
                BY <2>1, <2>10, <3>1
            <4>2. got \in Seq(Got)
                BY <1>20 DEF DataOK
            <4>3. got' = [j \in 1..Len(got) |-> got'[j]]
                BY <2>1, <3>1, <4>2
            <4>4. QED
                BY <4>1, <4>2, <4>3
        <3>2. CASE at # i
            BY <1>20, <2>1, <3>2 DEF DataOK
        <3>3. QED
            BY <3>1, <3>2
    <2>4. DataOK'
        BY <1>12, <1>20, <2>1, <2>3 DEF Recreate, DataOK
    <2>5. CtlOK'
        BY <1>20, <2>1, CtlOKUnchanged
    <2>6. CounterFacts'
        BY <1>20, <2>1 DEF SInv, CounterFacts, DataOK
    <2>7. GotFacts'
        <3>1. got' # <<>> => got # <<>>
            BY <1>20, <2>3 DEF DataOK
        <3>2. \A j \in DOMAIN got : got'[j].same /\ got'[j].v # None
                  => ctr'[at][j] = ctr[at][j]
            BY <1>20, <2>1, <2>2 DEF DataOK
        <3>3. QED
            BY <2>1, <2>2, <3>1, <3>2 DEF SInv, GotFacts
    <2>8. RowFacts' /\ CountFacts'
        BY <2>1 DEF SInv, RowFacts, CountFacts
    <2>9. QED
        BY <2>4, <2>5, <2>6, <2>7, <2>8, TypePartsNext DEF SInv
<1>13. CASE Stopped \/ UNCHANGED vars
    <2>1. UNCHANGED vars
        BY <1>13 DEF Stopped
    <2>2. DataOK' /\ CtlOK'
        BY <1>20, <2>1, DataOKUnchanged, CtlOKUnchanged DEF vars
    <2>3. QED
        BY <2>1, <2>2, DataUnchanged DEF vars, SInv, CountFacts
<1>15. SInv' => DataOK' /\ CtlOK' /\ CounterFacts' /\ GotFacts' /\ RowFacts'
                /\ CountFacts'
    BY TypePartsNext DEF SInv
<1>16. (\E i \in Candidates : Traffic(i) \/ Vanish(i) \/ Recreate(i)) => SInv'
    BY <1>10, <1>11, <1>12
<1>14. QED
    BY <1>1, <1>2, <1>3, <1>4, <1>5, <1>6, <1>7, <1>8, <1>9, <1>13, <1>15,
       <1>16 DEF Next, MainStep

-----------------------------------------------------------------------------
LEMMA SInvSpec == Spec => []SInv
<1>1. Init => SInv
    BY InitSInv
<1>2. SInv /\ [Next]_vars => SInv'
    BY NextSInv
<1>3. QED
    BY <1>1, <1>2, PTL DEF Spec

(***************************************************************************)
(* For every set of interfaces, every -n and every bound on the counters:  *)
(* whenever a row's counter was read with prev from the same instance of   *)
(* the interface, the delta main() prints is the traffic the kernel        *)
(* counted between the two reads, however Ctrl-C, deletion, recreation and *)
(* traffic interleave with the four reads of read_stat().                  *)
(***************************************************************************)
THEOREM SamplerRatesExact == Spec => []RateExactWhenFresh
<1>1. SInv => RateExactWhenFresh
    <2>1. SUFFICES ASSUME SInv, NEW i \in mon, ~rows[i].na
                   PROVE  \A k \in K : rows[i].fresh[k]
                                       => rows[i].delta[k] = rows[i].carried[k]
        BY DEF RateExactWhenFresh
    <2>2. i \in Candidates
        BY <2>1 DEF SInv, TypeOK
    <2>3. QED
        BY <2>1, <2>2 DEF SInv, RowFacts
<1>2. QED
    BY <1>1, SInvSpec, PTL

(***************************************************************************)
(* For every -n N > 0, main() prints at most N tables: the 'sample >=     *)
(* args.count' test stops the loop at the N-th table, whatever else        *)
(* happens.                                                                *)
(***************************************************************************)
THEOREM SamplesBounded == Spec => []SamplesWithinCount
<1>1. SInv => SamplesWithinCount
    BY DEF SInv, CountFacts, SamplesWithinCount
<1>2. QED
    BY <1>1, SInvSpec, PTL
=============================================================================
