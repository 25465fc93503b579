-------------------------- MODULE PeripheralProofs --------------------------
(***************************************************************************)
(* Proofs about the devices at the machine.  What the CANopen service      *)
(* keeps (Canopen): the heartbeat for every period, limit on the first     *)
(* heartbeat and restart delay; the transmit PDOs for every set of timers; *)
(* the dictionary for every number of mapping entries; the SDO client for  *)
(* every number of attempts and frames.  Then the pictures of the camera   *)
(* (Media): the preview of recordings, the live picture and the recordings.*)
(* And the mounted card and its log with the slot (SdCard).                *)
(***************************************************************************)
EXTENDS Canopen, Media, SdCard, FiniteSetTheorems, WellFoundedInduction, TLAPS

-----------------------------------------------------------------------------
(* The CANopen service: the node and its heartbeat.                         *)

(* Outside of a boot-up, silence and the time to the next heartbeat fit    *)
(* into a period.  A reset of communication breaks that, but the boot-up   *)
(* message of the next cycle ends the silence.                             *)
WaitFits == (period # 0 /\ ~bootup) => silence + remaining <= period

CanInv == CanTypeOK /\ NodeReports /\ WaitFits

(* The node that starts has no period yet.                                 *)
LEMMA CanStarts == CanInit => CanInv
<1> SUFFICES ASSUME CanInit PROVE CanInv
  OBVIOUS
<1>1. bootup \in BOOLEAN /\ forced \in BOOLEAN
  BY Zenon DEF CanInit
<1>2. CanTypeOK
  BY <1>1, CanAssumption DEF CanInit, CanTypeOK, NmtStates
<1> QED
  BY <1>2 DEF CanInit, CanInv, NodeReports, HeardInTime, HeardIsTrue, WaitFits

(* What a cycle does to the timers, its two kinds apart.                   *)
LEMMA CycleKeeps ==
    ASSUME CanInv, NEW error \in BOOLEAN, Cycle(error)
    PROVE  CanInv'
<1> USE CanAssumption DEF CanInv, CanTypeOK, Cycle, Ticked
<1>1. /\ Observed(error) \in NmtStates /\ Forced(error) \in BOOLEAN
      /\ (Observed(error) # nmt /\ period # 0) => Forced(error)
  BY DEF Observed, Forced, NmtStates
<1>2. period \in Nat /\ remaining \in Nat /\ silence \in Nat /\ period' = period
  OBVIOUS
<1>3. CanTypeOK'
  <2>1. restarting' \in 0 .. RestartDelay
    OBVIOUS
  <2>2. remaining' \in Nat /\ remaining' <= period' /\ silence' \in Nat
    BY <1>2 DEF NodeCycle, Beat, Silent
  <2>3. nmt' \in NmtStates /\ heard' \in NmtStates \cup {"none"}
    BY <1>1 DEF NodeCycle, Beat, Silent, NmtStates
  <2>4. bootup' \in BOOLEAN /\ forced' \in BOOLEAN
    BY <1>1, Zenon DEF NodeCycle
  <2> QED
    BY <2>1, <2>2, <2>3, <2>4
<1>4. HeardInTime' /\ WaitFits'
  BY <1>2 DEF NodeReports, HeardInTime, WaitFits, NodeCycle, Beat, Silent
<1>5. HeardIsTrue'
  <2>1. CASE bootup
    BY <2>1, <1>2 DEF NodeCycle, Beat, HeardIsTrue
  <2>2. CASE ~bootup
    <3>1. CASE period = 0
      BY <3>1, <1>2 DEF HeardIsTrue
    <3>2. CASE period # 0 /\ (Forced(error) \/ Ticked(remaining) = 0)
      BY <2>2, <3>2 DEF NodeCycle, Beat, HeardIsTrue
    <3>3. CASE period # 0 /\ ~Forced(error) /\ Ticked(remaining) # 0
      BY <2>2, <3>3, <1>1 DEF NodeCycle, Silent, NodeReports, HeardIsTrue, Forced
    <3> QED
      BY <3>1, <3>2, <3>3
  <2> QED
    BY <2>1, <2>2
<1> QED
  BY <1>3, <1>4, <1>5 DEF NodeReports

(* Every message and every cycle keeps the invariant.                      *)
LEMMA CanStep == CanInv /\ [CanNext]_canVars => CanInv'
<1> SUFFICES ASSUME CanInv, [CanNext]_canVars PROVE CanInv'
  OBVIOUS
<1>1. CASE UNCHANGED canVars
  BY <1>1 DEF CanInv, CanTypeOK, NodeReports, HeardInTime, HeardIsTrue, WaitFits, canVars
<1>2. ASSUME NEW new \in NmtStates, AcceptState(new) PROVE CanInv'
  BY <1>2 DEF AcceptState, select_state, CanInv, CanTypeOK, NodeReports, HeardInTime,
              HeardIsTrue, WaitFits
<1>3. CASE AcceptResetNode
  BY <1>3, CanAssumption
     DEF AcceptResetNode, CanInv, CanTypeOK, NodeReports, HeardInTime, HeardIsTrue, WaitFits
<1>4. CASE AcceptResetCommunication
  <2>1. bootup' \in BOOLEAN /\ forced' \in BOOLEAN
    BY <1>4, Zenon DEF AcceptResetCommunication
  <2>2. CanTypeOK'
    BY <1>4, <2>1, CanAssumption
       DEF AcceptResetCommunication, Lesser, CanInv, CanTypeOK, NmtStates
  <2> QED
    BY <1>4, <2>2
       DEF AcceptResetCommunication, CanInv, NodeReports, HeardInTime, HeardIsTrue, WaitFits
<1>5. ASSUME NEW p \in Periods, WritePeriod(p) PROVE CanInv'
  <2>1. bootup' \in BOOLEAN
    BY <1>5 DEF WritePeriod, CanInv, CanTypeOK
  <2>2. forced' \in BOOLEAN
    BY <1>5, Zenon DEF WritePeriod
  <2>3. CanTypeOK'
    BY <1>5, <2>1, <2>2, CanAssumption DEF WritePeriod, CanInv, CanTypeOK
  <2>4. HeardIsTrue'
    BY <1>5, Zenon DEF WritePeriod, HeardIsTrue
  <2>5. HeardInTime' /\ WaitFits'
    BY <1>5, <2>3, CanAssumption DEF WritePeriod, CanTypeOK, HeardInTime, WaitFits
  <2> QED
    BY <2>3, <2>4, <2>5 DEF CanInv, NodeReports
<1>6. ASSUME NEW error \in BOOLEAN, Cycle(error) PROVE CanInv'
  BY <1>6, CycleKeeps
<1>7. CASE CanRestart
  <2>1. bootup' \in BOOLEAN /\ forced' \in BOOLEAN
    BY <1>7, Zenon DEF CanRestart
  <2>2. CanTypeOK'
    BY <1>7, <2>1, CanAssumption DEF CanRestart, CanTypeOK, NmtStates
  <2> QED
    BY <1>7, <2>2 DEF CanRestart, CanInv, NodeReports, HeardInTime, HeardIsTrue, WaitFits
<1> QED
  BY <1>1, <1>2, <1>3, <1>4, <1>5, <1>6, <1>7 DEF CanNext

(* A master that wrote a heartbeat period hears of the node once in every  *)
(* period, and what it hears is its state, for all periods and delays      *)
(* (CanopenNode::process_cycle, select_state).                             *)
THEOREM MasterHearsTheNode == CanSpec => []NodeReports
<1>1. CanInv => NodeReports
  BY DEF CanInv
<1> QED
  BY <1>1, CanStarts, CanStep, PTL DEF CanSpec

-----------------------------------------------------------------------------
(* The transmit PDOs.  A PDO that is sent stops the clocks of the ones      *)
(* after it, once: for the next time its own clock has to run first, and    *)
(* that takes a cycle in which nothing before it is sent.  Clocks that run  *)
(* are thus the digits of a binary number, which a cycle that stops the     *)
(* clock of a PDO counts down.                                              *)
Runs(p) == IF elapsed[p] >= 1 THEN 1 ELSE 0

(* The cycles in which the ones before p may stop its clock before it runs  *)
(* again.                                                                   *)
StopsLeft(p) ==
    CASE p = 0 -> 0
      [] p = 1 -> Runs(0)
      [] p = 2 -> Runs(0) + 2 * Runs(1)
      [] p = 3 -> Runs(0) + 2 * Runs(1) + 4 * Runs(2)

Live(p) == pdo[p].enabled /\ pdo[p].timer # 0 /\ pdo[p].sendable

(* The turns of its clock that a PDO has had or has still to come, of which *)
(* each takes 2^p cycles.                                                   *)
Turns(p) == UpTo(elapsed[p] + 1, pdo[p].timer)
WaitsInTurns ==
    \A p \in Pdos : Live(p) => waited[p] + 1 + StopsLeft(p) <= 2^p * Turns(p)

PdoInv == PdoTypeOK /\ WaitsInTurns

LEMMA Powers == 2^0 = 1 /\ 2^1 = 2 /\ 2^2 = 4 /\ 2^3 = 8
OBVIOUS

(* There are fewer of those cycles than 2^p.                                *)
LEMMA StopsAreFew ==
    ASSUME NEW p \in {0, 1, 2, 3}
    PROVE  StopsLeft(p) \in Nat /\ 1 + StopsLeft(p) <= 2^p /\ 2^p \in Nat
<1>1. CASE p = 0
  BY <1>1, Powers DEF StopsLeft
<1>2. CASE p = 1
  BY <1>2, Powers DEF StopsLeft, Runs
<1>3. CASE p = 2
  BY <1>3, Powers DEF StopsLeft, Runs
<1>4. CASE p = 3
  BY <1>4, Powers DEF StopsLeft, Runs
<1> QED
  BY <1>1, <1>2, <1>3, <1>4

LEMMA PdoNumbers ==
    ASSUME PdoCount \in 1..4
    PROVE  /\ \A p \in Pdos : p \in {0, 1, 2, 3}
           /\ \A p \in Pdos : \A q \in 0..p : q \in Pdos
           /\ LongestWait \in Nat /\ Longest \in Timers /\ Longest \in Nat
           /\ \A t \in Timers : t <= Longest
<1>1. Longest \in Timers /\ \A t \in Timers : t <= Longest
  BY PdoAssumption, Zenon DEF Longest
<1>2. Longest \in Nat
  BY <1>1, PdoAssumption
<1>3. PdoCount \in {1, 2, 3, 4}
  OBVIOUS
<1>4. 2^(PdoCount - 1) \in {1, 2, 4, 8}
  <2>1. PdoCount - 1 \in {0, 1, 2, 3}
    BY <1>3
  <2> QED
    BY <2>1, Powers
<1>5. LongestWait \in Nat
  BY <1>2, <1>4 DEF LongestWait
<1>6. (\A p \in Pdos : p \in {0, 1, 2, 3}) /\ (\A p \in Pdos : \A q \in 0..p : q \in Pdos)
  BY <1>3 DEF Pdos
<1> QED
  BY <1>1, <1>2, <1>5, <1>6

LEMMA TimerIsNatural ==
    ASSUME PdoCount \in 1..4, PdoTypeOK, NEW p \in Pdos
    PROVE  pdo[p].timer \in Nat /\ pdo[p].timer <= Longest
<1>1. pdo[p].timer \in Timers \cup {0}
  BY DEF PdoTypeOK, PdoSettings
<1>2. Timers \subseteq Nat /\ Longest \in Nat /\ \A t \in Timers : t <= Longest
  BY PdoNumbers, PdoAssumption
<1>3. CASE pdo[p].timer \in Timers
  <2> DEFINE timer == pdo[p].timer
  <2>1. timer \in Nat /\ timer <= Longest
    BY <1>2, <1>3, Zenon
  <2> QED
    BY <2>1
<1>4. CASE pdo[p].timer = 0
  BY <1>2, <1>4
<1> QED
  BY <1>1, <1>3, <1>4

LEMMA PdoStarts == PdoCount \in 1..4 /\ PdoInit => PdoInv
<1> SUFFICES ASSUME PdoCount \in 1..4, PdoInit PROVE PdoInv
  OBVIOUS
<1>1. [enabled |-> FALSE, timer |-> 0, sendable |-> TRUE] \in PdoSettings
  BY DEF PdoSettings
<1>2. PdoTypeOK
  BY <1>1, PdoNumbers DEF PdoInit, PdoTypeOK
<1>3. WaitsInTurns
  BY DEF PdoInit, WaitsInTurns, Live
<1> QED
  BY <1>2, <1>3 DEF PdoInv

(* What a write leaves of the other PDOs, and what it says of its own.      *)
LEMMA AssignKeeps ==
    ASSUME PdoCount \in 1..4, PdoInv, NEW p \in Pdos, NEW setting \in PdoSettings,
           Assign(p, setting)
    PROVE  PdoInv'
<1>1. PdoTypeOK'
  BY PdoNumbers DEF PdoInv, PdoTypeOK, Assign
<1>2. ASSUME NEW q \in Pdos, Live(q)'
      PROVE  waited'[q] + 1 + StopsLeft(q)' <= 2^q * Turns(q)'
  <2>1. q \in {0, 1, 2, 3} /\ \A r \in 0..q : r \in Pdos
    BY PdoNumbers
  <2>2. StopsLeft(q)' = StopsLeft(q)
    BY DEF Assign, StopsLeft, Runs
  <2>3. elapsed[q] \in Nat /\ elapsed' = elapsed /\ pdo'[q] \in PdoSettings
    BY <1>1, PdoNumbers DEF PdoInv, PdoTypeOK, Assign
  <2>4. CASE q # p
    BY <2>2, <2>4, <1>2 DEF PdoInv, PdoTypeOK, WaitsInTurns, Live, Turns, Assign
  <2>5. CASE q = p
    <3>1. waited'[q] = 0
      BY <2>5 DEF Assign, PdoInv, PdoTypeOK
    <3>2. pdo'[q].timer \in Nat /\ pdo'[q].timer # 0
      BY <2>3, <1>2, PdoAssumption DEF PdoSettings, Live
    <3>3. Turns(q)' \in Nat /\ Turns(q)' >= 1
      BY <3>2, <2>3 DEF Turns, UpTo
    <3>4. 1 + StopsLeft(q)' <= 2^q /\ 2^q \in Nat /\ StopsLeft(q)' \in Nat
      BY <2>1, <2>2, StopsAreFew
    <3> QED
      BY <2>1, <3>1, <3>3, <3>4, Powers
  <2> QED
    BY <2>4, <2>5
<1> QED
  BY <1>1, <1>2 DEF PdoInv, WaitsInTurns

(* A cycle in which neither p nor one before it is sent: the clock of p     *)
(* runs, and all the ones before it.                                        *)
LEMMA ClockRuns ==
    ASSUME PdoCount \in 1..4, PdoInv, NEW p \in Pdos, Live(p), ~build_tpdo(p),
           elapsed'[p] = Clock(p), pdo' = pdo, waited'[p] = Waits(p)
    PROVE  waited'[p] + 1 + StopsLeft(p)' <= 2^p * Turns(p)'
<1>1. p \in {0, 1, 2, 3}
  BY PdoNumbers
<1>2. /\ elapsed[p] \in Nat /\ waited[p] \in Nat /\ pdo[p].timer \in Nat
      /\ pdo[p].timer <= Longest /\ pdo[p].timer # 0
  BY PdoNumbers, TimerIsNatural DEF PdoInv, PdoTypeOK, Live
<1>3. waited'[p] \in Nat /\ waited'[p] <= waited[p] + 1
  BY <1>2, PdoNumbers DEF Waits, UpTo
<1>4. Clock(p) < pdo[p].timer
  BY <1>2, PdoNumbers DEF build_tpdo, Live, Clock, UpTo
<1>5. elapsed'[p] = elapsed[p] + 1 /\ elapsed[p] + 1 < pdo[p].timer
  BY <1>2, <1>4, PdoNumbers DEF Clock, UpTo
<1>6. Turns(p) = elapsed[p] + 1 /\ Turns(p)' = elapsed[p] + 2
  BY <1>2, <1>5 DEF Turns, UpTo
<1>7. waited[p] + 1 + StopsLeft(p) <= 2^p * Turns(p)
  BY DEF PdoInv, WaitsInTurns
<1>8. StopsLeft(p)' \in Nat /\ 1 + StopsLeft(p)' <= 2^p /\ StopsLeft(p) \in Nat
  <2>1. CASE p = 0
    BY <2>1, Powers DEF StopsLeft
  <2>2. CASE p = 1
    BY <2>2, Powers DEF StopsLeft, Runs
  <2>3. CASE p = 2
    BY <2>3, Powers DEF StopsLeft, Runs
  <2>4. CASE p = 3
    BY <2>4, Powers DEF StopsLeft, Runs
  <2> QED
    BY <1>1, <2>1, <2>2, <2>3, <2>4
<1> QED
  BY <1>1, <1>2, <1>3, <1>6, <1>7, <1>8, Powers

(* A cycle in which one before p is sent: it stops the clock of p, and      *)
(* there is one such cycle less to come.                                    *)
LEMMA ClockStops ==
    ASSUME PdoCount \in 1..4, 1 \notin Timers, PdoInv, NEW p \in Pdos, Live(p),
           NEW s \in 0..p - 1, Sends(s)
    PROVE  waited'[p] + 1 + StopsLeft(p)' <= 2^p * Turns(p)'
<1>1. p \in {0, 1, 2, 3} /\ s \in Pdos /\ s < p /\ s \in Nat
  BY PdoNumbers DEF Pdos
<1>2. \A q \in Pdos : elapsed[q] \in Nat /\ waited[q] \in Nat
  BY PdoNumbers DEF PdoInv, PdoTypeOK
<1>3. waited'[p] \in Nat /\ waited'[p] <= waited[p] + 1
  BY <1>1, <1>2, PdoNumbers DEF Sends, Waits, UpTo
<1>4. elapsed'[p] = elapsed[p] /\ elapsed'[s] = 0 /\ pdo' = pdo
  BY <1>1, PdoNumbers DEF Sends, Pdos
<1>5. elapsed[s] >= 1
  <2>1. pdo[s].timer \in Timers /\ pdo[s].timer # 0 /\ Clock(s) >= pdo[s].timer
    BY <1>1 DEF Sends, build_tpdo, PdoInv, PdoTypeOK, PdoSettings
  <2>2. pdo[s].timer \in Nat /\ pdo[s].timer # 1
    BY <2>1, <1>1, TimerIsNatural DEF PdoInv
  <2>3. pdo[s].timer >= 2
    BY <2>1, <2>2
  <2>4. elapsed[s] \in Nat /\ Longest \in Nat
    BY <1>1, <1>2, PdoNumbers
  <2> QED
    BY <2>1, <2>2, <2>3, <2>4 DEF Clock, UpTo
<1>6. \A q \in Pdos : q > s => elapsed'[q] = elapsed[q]
  BY <1>1 DEF Sends, Pdos
<1>7. StopsLeft(p)' + 1 <= StopsLeft(p) /\ StopsLeft(p)' \in Nat /\ StopsLeft(p) \in Nat
  <2>1. CASE p = 1
    BY <2>1, <1>1, <1>4, <1>5 DEF StopsLeft, Runs
  <2>2. CASE p = 2 /\ s = 0
    <3>1. 1 \in Pdos /\ elapsed'[1] = elapsed[1]
      BY <1>6, <2>2, PdoNumbers
    <3> QED
      BY <2>2, <3>1, <1>4, <1>5 DEF StopsLeft, Runs
  <2>3. CASE p = 2 /\ s = 1
    BY <2>3, <1>4, <1>5 DEF StopsLeft, Runs
  <2>4. CASE p = 3 /\ s = 0
    <3>1. elapsed'[1] = elapsed[1] /\ elapsed'[2] = elapsed[2]
      BY <1>6, <2>4, PdoNumbers
    <3> QED
      BY <2>4, <3>1, <1>4, <1>5 DEF StopsLeft, Runs
  <2>5. CASE p = 3 /\ s = 1
    <3>1. elapsed'[2] = elapsed[2]
      BY <1>6, <2>5, PdoNumbers
    <3> QED
      BY <2>5, <3>1, <1>4, <1>5 DEF StopsLeft, Runs
  <2>6. CASE p = 3 /\ s = 2
    BY <2>6, <1>4, <1>5 DEF StopsLeft, Runs
  <2> QED
    BY <1>1, <2>1, <2>2, <2>3, <2>4, <2>5, <2>6
<1>8. waited[p] + 1 + StopsLeft(p) <= 2^p * Turns(p) /\ Turns(p)' = Turns(p)
  BY <1>4 DEF PdoInv, WaitsInTurns, Turns
<1>9. Turns(p) \in Nat /\ 2^p \in Nat
  <2>1. pdo[p].timer \in Nat /\ elapsed[p] \in Nat
    BY <1>2, TimerIsNatural DEF PdoInv
  <2>2. Turns(p) \in Nat
    BY <2>1 DEF Turns, UpTo
  <2> QED
    BY <2>2, <1>1, StopsAreFew
<1> QED
  BY <1>1, <1>2, <1>3, <1>7, <1>8, <1>9, Powers

LEMMA PdoStep ==
    ASSUME PdoCount \in 1..4, 1 \notin Timers, PdoInv, [PdoNext]_pdoVars
    PROVE  PdoInv'
<1>1. CASE UNCHANGED pdoVars
  BY <1>1 DEF PdoInv, PdoTypeOK, WaitsInTurns, Live, Turns, StopsLeft, Runs, pdoVars
<1>2. ASSUME NEW p \in Pdos, NEW t \in Timers, WriteTimer(p, t) PROVE PdoInv'
  <2>1. [pdo[p] EXCEPT !.timer = t] \in PdoSettings
    BY DEF PdoInv, PdoTypeOK, PdoSettings
  <2> QED
    BY <2>1, <1>2, AssignKeeps DEF WriteTimer
<1>3. ASSUME NEW p \in Pdos, NEW b \in BOOLEAN, WriteIdentifier(p, b) PROVE PdoInv'
  <2>1. [pdo[p] EXCEPT !.enabled = b] \in PdoSettings
    BY DEF PdoInv, PdoTypeOK, PdoSettings
  <2> QED
    BY <2>1, <1>3, AssignKeeps DEF WriteIdentifier
<1>4. ASSUME NEW p \in Pdos, NEW b \in BOOLEAN, WriteMapping(p, b) PROVE PdoInv'
  <2>1. [pdo[p] EXCEPT !.sendable = b] \in PdoSettings
    BY DEF PdoInv, PdoTypeOK, PdoSettings
  <2> QED
    BY <2>1, <1>4, AssignKeeps DEF WriteMapping
<1>5. \A p \in Pdos : Clock(p) \in 0..Longest /\ Waits(p) \in 0..LongestWait
  BY PdoNumbers DEF Clock, Waits, UpTo, PdoInv, PdoTypeOK
<1>6. ASSUME NEW s \in Pdos, Sends(s) PROVE PdoInv'
  <2>1. PdoTypeOK'
    BY <1>5, <1>6, PdoNumbers DEF Sends, PdoInv, PdoTypeOK
  <2>2. ASSUME NEW p \in Pdos, Live(p)'
        PROVE  waited'[p] + 1 + StopsLeft(p)' <= 2^p * Turns(p)'
    <3>1. Live(p) /\ pdo' = pdo
      BY <1>6, <2>2 DEF Sends, Live
    <3>2. CASE p = s
      <4>1. waited'[p] = 0 /\ elapsed'[p] = 0
        BY <3>2, <1>6 DEF Sends
      <4>2. pdo'[p].timer \in Nat /\ pdo'[p].timer # 0
        BY <3>1, PdoAssumption DEF PdoInv, PdoTypeOK, PdoSettings, Live
      <4>3. Turns(p)' = 1
        BY <4>1, <4>2 DEF Turns, UpTo
      <4>4. p \in {0, 1, 2, 3}
        BY PdoNumbers
      <4>5. 1 + StopsLeft(p)' <= 2^p /\ StopsLeft(p)' \in Nat
        <5>1. CASE p = 0
          BY <5>1, Powers DEF StopsLeft
        <5>2. CASE p = 1
          BY <5>2, Powers DEF StopsLeft, Runs
        <5>3. CASE p = 2
          BY <5>3, Powers DEF StopsLeft, Runs
        <5>4. CASE p = 3
          BY <5>4, Powers DEF StopsLeft, Runs
        <5> QED
          BY <4>4, <5>1, <5>2, <5>3, <5>4
      <4> QED
        BY <4>1, <4>3, <4>4, <4>5, Powers
    <3>3. CASE p < s
      <4>1. p \in 0..s - 1 /\ elapsed'[p] = Clock(p) /\ waited'[p] = Waits(p)
        BY <3>3, <1>6 DEF Sends, Pdos
      <4> QED
        BY <4>1, <3>1, <1>6, ClockRuns DEF Sends
    <3>4. CASE p > s
      BY <3>1, <3>4, <1>6, ClockStops DEF Pdos
    <3> QED
      BY <3>2, <3>3, <3>4 DEF Pdos
  <2> QED
    BY <2>1, <2>2 DEF PdoInv, WaitsInTurns
<1>7. CASE SendsNone
  <2>1. PdoTypeOK'
    BY <1>5, <1>7, PdoNumbers DEF SendsNone, PdoInv, PdoTypeOK
  <2>2. ASSUME NEW p \in Pdos, Live(p)'
        PROVE  waited'[p] + 1 + StopsLeft(p)' <= 2^p * Turns(p)'
    <3>1. Live(p) /\ pdo' = pdo /\ elapsed'[p] = Clock(p) /\ waited'[p] = Waits(p)
      BY <1>7, <2>2 DEF SendsNone, Live
    <3> QED
      BY <3>1, <1>7, ClockRuns DEF SendsNone
  <2> QED
    BY <2>1, <2>2 DEF PdoInv, WaitsInTurns
<1> QED
  BY <1>1, <1>2, <1>3, <1>4, <1>6, <1>7 DEF PdoNext

(* A transmit PDO that can be sent is sent within 2^p of its timers, for    *)
(* all the timers but a single cycle and up to the four PDOs of the         *)
(* dictionary (CanopenTransmitPdoScheduler::process_cycle).                 *)
THEOREM TransmitPdosArePaced ==
    ASSUME PdoCount \in 1..4, 1 \notin Timers
    PROVE  PdoSpec => []TpdoPaced
<1>1. PdoInv => TpdoPaced
  <2> SUFFICES ASSUME PdoInv, NEW p \in Pdos, Live(p)
               PROVE  waited[p] < 2^p * pdo[p].timer
    BY DEF TpdoPaced, Live
  <2>1. p \in {0, 1, 2, 3}
    BY PdoNumbers
  <2>2. pdo[p].timer \in Nat /\ elapsed[p] \in Nat /\ waited[p] \in Nat
    BY TimerIsNatural, PdoNumbers DEF PdoInv, PdoTypeOK
  <2>3. Turns(p) \in Nat /\ Turns(p) <= pdo[p].timer
    BY <2>2 DEF Turns, UpTo
  <2>4. waited[p] + 1 + StopsLeft(p) <= 2^p * Turns(p) /\ StopsLeft(p) \in Nat
    BY <2>1, StopsAreFew DEF PdoInv, WaitsInTurns
  <2> QED
    BY <2>1, <2>2, <2>3, <2>4, Powers
<1>2. PdoInit => PdoInv
  BY PdoStarts
<1>3. PdoInv /\ [PdoNext]_pdoVars => PdoInv'
  BY PdoStep
<1> QED
  BY <1>1, <1>2, <1>3, PTL DEF PdoSpec

-----------------------------------------------------------------------------
(* The SDO client.  While it waits, what the CAN task has taken and what it *)
(* has published answers the request, and was read in this cycle.           *)
SdoWaits == exerciser \in {"read_wait", "write_wait"}
InCycle == exerciser \in {"read", "read_wait", "write", "write_wait"}
AskedFor == IF exerciser = "read_wait" THEN "input" ELSE "output"

OfThisCycle(answer) == answer.code = "value" => answer.value \in seen
IsMine(answer) ==
    answer.object = AskedFor /\ answer.code \in {"value", "abort"} /\ OfThisCycle(answer)

MailboxFits ==
    /\ mailbox \in RemoteObjects \cup {"none"}
    /\ mailbox # "none" => exerciser = (IF mailbox = "input" THEN "read_wait" ELSE "write_wait")
BusIsOfThisCycle ==
    /\ \E A : bus \in Seq(A)
    /\ InCycle => input \in seen /\ \A f \in 1..Len(bus) : OfThisCycle(bus[f])
AnswersAreMine ==
    SdoWaits => /\ attempt # 0
                /\ (taken # Nothing \/ given) => mailbox = "none"
                /\ taken # Nothing => IsMine(taken)
                /\ given => IsMine(result)
ActsOnTheCycle == (exerciser = "write" /\ attempt = 0) => value \in seen

SdoInv ==
    attempt \in Nat /\ MailboxFits /\ BusIsOfThisCycle /\ AnswersAreMine /\ ActsOnTheCycle

LEMMA SdoStarts == SdoInit => SdoInv
<1> SUFFICES ASSUME SdoInit PROVE SdoInv
  OBVIOUS
<1>1. bus \in Seq({})
  BY DEF SdoInit
<1> QED
  BY <1>1 DEF SdoInit, SdoInv, MailboxFits, BusIsOfThisCycle, AnswersAreMine, ActsOnTheCycle,
              SdoWaits, InCycle

(* An answer that joins the bus.                                            *)
LEMMA BusGrows ==
    ASSUME NEW A, bus \in Seq(A), NEW answer, bus' = Append(bus, answer)
    PROVE  /\ \E B : bus' \in Seq(B)
           /\ \A f \in 1..Len(bus') : bus'[f] = answer \/ (f \in 1..Len(bus) /\ bus'[f] = bus[f])
<1>1. bus \in Seq(A \cup {answer})
  OBVIOUS
<1>2. bus' \in Seq(A \cup {answer})
  BY <1>1
<1>3. Len(bus) \in Nat /\ Len(bus') = Len(bus) + 1 /\ bus'[Len(bus) + 1] = answer
  BY <1>1
<1>4. \A f \in 1..Len(bus) : bus'[f] = bus[f]
  BY <1>1
<1>5. \A f \in 1..Len(bus') : bus'[f] = answer \/ (f \in 1..Len(bus) /\ bus'[f] = bus[f])
  <2> SUFFICES ASSUME NEW f \in 1..Len(bus')
               PROVE  bus'[f] = answer \/ (f \in 1..Len(bus) /\ bus'[f] = bus[f])
    OBVIOUS
  <2>1. f \in 1..Len(bus) \/ f = Len(bus) + 1
    BY <1>3
  <2> QED
    BY <1>3, <1>4, <2>1
<1> QED
  BY <1>2, <1>5, Zenon

(* An answer that leaves it.                                                *)
LEMMA BusShrinks ==
    ASSUME NEW A, bus \in Seq(A), bus # <<>>, bus' = Tail(bus)
    PROVE  /\ bus' \in Seq(A) /\ 1 \in 1..Len(bus) /\ Head(bus) = bus[1]
           /\ \A f \in 1..Len(bus') : f + 1 \in 1..Len(bus) /\ bus'[f] = bus[f + 1]
OBVIOUS

LEMMA SdoStep ==
    ASSUME ~LateAnswers, ~Overtakes, SdoInv, [SdoNext]_sdoVars
    PROVE  SdoInv'
<1> USE DEF SdoInv, MailboxFits, AnswersAreMine, ActsOnTheCycle, SdoWaits, IsMine, AskedFor
<1>1. CASE UNCHANGED sdoVars
  BY <1>1 DEF BusIsOfThisCycle, InCycle, OfThisCycle, sdoVars
<1>2. CASE OfferOwn
  BY <1>2 DEF OfferOwn, BusIsOfThisCycle, InCycle, OfThisCycle
<1>3. CASE BeginRead
  BY <1>3 DEF BeginRead, Begin, RemoteObjects, BusIsOfThisCycle, InCycle, OfThisCycle
<1>4. CASE BeginWrite
  BY <1>4 DEF BeginWrite, Begin, RemoteObjects, BusIsOfThisCycle, InCycle, OfThisCycle
<1>5. CASE ReadAnswered
  BY <1>5 DEF ReadAnswered, Succeeded, RemoteObjects, BusIsOfThisCycle, InCycle, OfThisCycle
<1>6. CASE WriteAnswered
  BY <1>6 DEF WriteAnswered, Succeeded, RemoteObjects, BusIsOfThisCycle, InCycle, OfThisCycle
<1>7. CASE WaitExpires
  BY <1>7 DEF WaitExpires, BusIsOfThisCycle, InCycle, OfThisCycle
<1>8. CASE Start
  BY <1>8 DEF Start, RemoteObjects, BusIsOfThisCycle, InCycle, OfThisCycle
<1>9. CASE RunsOut
  BY <1>9 DEF RunsOut, BusIsOfThisCycle, InCycle, OfThisCycle
<1>10. CASE BeginCycle
  BY <1>10 DEF BeginCycle, Arrived, RemoteObjects, BusIsOfThisCycle, InCycle, OfThisCycle
<1>11. CASE GiveUp
  BY <1>11 DEF GiveUp, RemoteObjects, BusIsOfThisCycle, InCycle, OfThisCycle
<1>12. CASE RemoteHandles
  <2>1. UNCHANGED <<exerciser, attempt, mailbox, taken, result, given, input, value, seen>>
    BY <1>12 DEF RemoteHandles
  <2>2. MailboxFits' /\ AnswersAreMine' /\ ActsOnTheCycle'
    BY <2>1 DEF OfThisCycle
  <2>3. BusIsOfThisCycle'
    <3>1. CASE bus' = bus
      BY <2>1, <3>1 DEF BusIsOfThisCycle, InCycle, OfThisCycle
    <3>2. ASSUME NEW ok \in BOOLEAN, bus' = Append(bus, AnswerTo(Head(inbox), ok))
          PROVE  BusIsOfThisCycle'
      <4>1. PICK A : bus \in Seq(A)
        BY DEF BusIsOfThisCycle
      <4>2. /\ \E B : bus' \in Seq(B)
            /\ \A f \in 1..Len(bus') : \/ bus'[f] = AnswerTo(Head(inbox), ok)
                                       \/ f \in 1..Len(bus) /\ bus'[f] = bus[f]
        BY <3>2, <4>1, BusGrows
      <4>3. InCycle => OfThisCycle(AnswerTo(Head(inbox), ok))
        BY DEF AnswerTo, OfThisCycle, BusIsOfThisCycle
      <4> QED
        BY <2>1, <4>2, <4>3 DEF BusIsOfThisCycle, InCycle, OfThisCycle
    <3> QED
      BY <1>12, <3>1, <3>2 DEF RemoteHandles
  <2> QED
    BY <2>1, <2>2, <2>3
<1>13. CASE InputsChange
  BY <1>13 DEF InputsChange, BusIsOfThisCycle, InCycle, OfThisCycle
<1>14. CASE ReceiveAnswer
  BY <1>14, BusShrinks
     DEF ReceiveAnswer, accepts, RemoteObjects, BusIsOfThisCycle, InCycle, OfThisCycle
<1>15. CASE Publish
  BY <1>15 DEF Publish, BusIsOfThisCycle, InCycle, OfThisCycle
<1> QED
  BY <1>1, <1>2, <1>3, <1>4, <1>5, <1>6, <1>7, <1>8, <1>9, <1>10, <1>11, <1>12, <1>13,
     <1>14, <1>15 DEF SdoNext

(* The worker acts on what it asked for in its cycle, for any number of     *)
(* attempts and frames, if answers do not outlast the timeout and the CAN   *)
(* task is not overtaken (CanopenSdoMailbox, read_remote_u32).              *)
THEOREM SdoClientServes ==
    ASSUME ~LateAnswers, ~Overtakes
    PROVE  SdoSpec => []SdoServes
<1>1. SdoInv => SdoServes
  BY DEF SdoInv, MailboxFits, AnswersAreMine, ActsOnTheCycle, SdoWaits, IsMine, AskedFor, SdoServes
<1>2. SdoInv /\ [SdoNext]_sdoVars => SdoInv'
  BY SdoStep
<1> QED
  BY <1>1, <1>2, SdoStarts, PTL DEF SdoSpec

-----------------------------------------------------------------------------
(* The dictionary.  A set of numbers that is not empty has a least one;     *)
(* what holds of no least counterexample holds.                             *)
LEMMA LeastNumber ==
    ASSUME NEW T \in SUBSET Nat, T # {}
    PROVE  \E n \in T : \A m \in T : n <= m
<1>1. IsWellFoundedOn(OpToRel(<, Nat), Nat)
  BY NatLessThanWellFounded
<1>2. PICK n \in T : \A m \in T : ~(<<m, n>> \in OpToRel(<, Nat))
  BY <1>1, WFMin
<1>3. \A x, y \in Nat : <<y, x>> \in OpToRel(<, Nat) <=> y < x
  BY DEF OpToRel
<1>4. \A m \in T : n <= m
  <2> SUFFICES ASSUME NEW m \in T PROVE n <= m
    OBVIOUS
  <2>1. m \in Nat /\ n \in Nat
    OBVIOUS
  <2>2. ~(m < n)
    BY <1>2, <1>3, <2>1, Zenon
  <2> QED
    BY <2>1, <2>2
<1> QED
  BY <1>4

(* The steps of a frame's reception up to entry m.                          *)
Received(f, m, words) ==
    f = [n \in 0..m |-> IF n = 0 THEN Unread ELSE receive_entry(f[n - 1], n, words)]

(* One more entry can always be received.                                   *)
LEMMA ReceivesNext ==
    ASSUME NEW words, NEW m \in Nat, m # 0, NEW f, Received(f, m - 1, words)
    PROVE  \E g : Received(g, m, words)
<1> DEFINE g == [n \in 0..m |-> IF n < m THEN f[n] ELSE receive_entry(f[m - 1], m, words)]
           h == [n \in 0..m |-> IF n = 0 THEN Unread ELSE receive_entry(g[n - 1], n, words)]
<1>1. \A n \in 0..m : g[n] = h[n]
  <2> SUFFICES ASSUME NEW n \in 0..m PROVE g[n] = h[n]
    OBVIOUS
  <2>1. CASE n = 0
    BY <2>1 DEF Received
  <2>2. CASE n # 0 /\ n < m
    <3>1. n \in 0..m - 1 /\ n - 1 \in 0..m /\ n - 1 < m
      BY <2>2
    <3>2. f[n] = receive_entry(f[n - 1], n, words)
      BY <2>2, <3>1 DEF Received
    <3>3. g[n - 1] = f[n - 1]
      BY <3>1
    <3>4. g[n] = f[n] /\ h[n] = receive_entry(g[n - 1], n, words)
      BY <2>2
    <3> QED
      BY <3>2, <3>3, <3>4
  <2>3. CASE n = m
    <3>1. m - 1 \in 0..m /\ m - 1 < m
      OBVIOUS
    <3>2. g[m - 1] = f[m - 1]
      BY <3>1
    <3>3. g[n] = receive_entry(f[m - 1], m, words) /\ h[n] = receive_entry(g[m - 1], m, words)
      BY <2>3
    <3> QED
      BY <3>2, <3>3
  <2> QED
    BY <2>1, <2>2, <2>3
<1>2. g = h
  BY <1>1
<1> HIDE DEF g
<1>3. Received(g, m, words)
  BY <1>2 DEF Received
<1> QED
  BY <1>3

LEMMA ReceptionExists ==
    ASSUME NEW words
    PROVE  \E f : Received(f, Slots, words)
<1> DEFINE T == {m \in Nat : ~\E f : Received(f, m, words)}
<1>1. Slots \in Nat
  BY DictionaryAssumption
<1>2. ASSUME T # {} PROVE FALSE
  <2>1. PICK m \in T : \A k \in T : m <= k
    BY <1>2, LeastNumber
  <2>2. CASE m = 0
    <3>1. Received([n \in 0..0 |-> Unread], 0, words)
      BY DEF Received
    <3> QED
      BY <2>2, <3>1
  <2>3. CASE m # 0
    <3>1. m - 1 \in Nat /\ ~(m <= m - 1)
      BY <2>3
    <3>2. m - 1 \notin T
      BY <2>1, <3>1
    <3>3. PICK f : Received(f, m - 1, words)
      BY <3>1, <3>2
    <3> QED
      BY <2>3, <3>3, ReceivesNext
  <2> QED
    BY <2>2, <2>3
<1> QED
  BY <1>1, <1>2

(* What receive_from computes: the last of the steps, each from the one     *)
(* before it.                                                               *)
LEMMA ReceptionSteps ==
    ASSUME NEW words
    PROVE  \E f : /\ receive_from(words) = f[Slots] /\ f[0] = Unread
                  /\ \A n \in 1..Slots : f[n] = receive_entry(f[n - 1], n, words)
<1> DEFINE f == CHOOSE g : Received(g, Slots, words)
<1>1. Received(f, Slots, words)
  BY ReceptionExists
<1>2. receive_from(words) = f[Slots]
  BY DEF receive_from, Received
<1> HIDE DEF f
<1>3. Slots \in Nat
  BY DictionaryAssumption
<1>4. f[0] = Unread
  BY <1>1, <1>3 DEF Received
<1>5. \A n \in 1..Slots : f[n] = receive_entry(f[n - 1], n, words)
  BY <1>1, <1>3 DEF Received
<1> QED
  BY <1>2, <1>4, <1>5

(* The entries that a mapping may have, and the values of the dictionary.   *)
SoundWords == {Zero} \cup {<<o, TRUE>> : o \in {m \in Mappable : rpdo_mappable(m)}}
Dictionaries ==
    [slot : [MappingSlots -> SoundWords], count : 0..Slots, identifier : Identifiers,
     output : Words, period : HeartbeatPeriods \cup {0}]

DictionaryInv == dictionary \in Dictionaries /\ nodePeriod = dictPeriod

LEMMA SoundWordShape ==
    ASSUME NEW word \in SoundWords, word # Zero
    PROVE  /\ word[1] = <<"output">> \/ \E s \in MappingSlots : word[1] = <<"slot", s>>
           /\ word[1][1] \in {"slot", "output"}
<1>1. PICK o \in Mappable : rpdo_mappable(o) /\ word = <<o, TRUE>>
  BY DEF SoundWords
<1>2. word[1] = o /\ o[1] \in {"slot", "output"}
  BY <1>1 DEF rpdo_mappable
<1>3. CASE \E s \in MappingSlots : o = <<"slot", s>>
  BY <1>2, <1>3
<1>4. CASE o = <<"output">>
  BY <1>2, <1>4
<1>5. CASE o = <<"error_register">>
  BY <1>2, <1>5
<1> QED
  BY <1>3, <1>4, <1>5 DEF Mappable

LEMMA ValidIsSound ==
    ASSUME NEW word, valid_mapping(word)
    PROVE  word \in SoundWords
<1>1. CASE word = Zero
  BY <1>1 DEF SoundWords
<1>2. CASE word \in Descriptors /\ word[2] /\ rpdo_mappable(word[1])
  <2>1. PICK o \in Mappable, exact \in BOOLEAN : word = <<o, exact>>
    BY <1>2 DEF Descriptors
  <2>2. word[1] = o /\ word[2] = exact
    BY <2>1
  <2>3. exact = TRUE /\ rpdo_mappable(o)
    BY <1>2, <2>2
  <2> QED
    BY <2>1, <2>3 DEF SoundWords
<1> QED
  BY <1>1, <1>2 DEF valid_mapping

(* A write that the dictionary accepts leaves it sound.                     *)
LEMMA SlotWritten ==
    ASSUME NEW d \in Dictionaries, NEW s \in MappingSlots, NEW v \in SoundWords,
           NEW o, o = <<"slot", s>>
    PROVE  Assigned(d, o, v) \in Dictionaries /\ Assigned(d, o, v).period = d.period
<1>1. o[1] = "slot" /\ o[2] = s
  OBVIOUS
<1>2. Assigned(d, o, v) = [d EXCEPT !.slot[s] = v]
  BY <1>1 DEF Assigned
<1>3. PICK e : e = [d EXCEPT !.slot[s] = v]
  OBVIOUS
<1>4. [d.slot EXCEPT ![s] = v] \in [MappingSlots -> SoundWords]
  BY DEF Dictionaries
<1>5. e \in Dictionaries /\ e.period = d.period
  BY <1>3, <1>4 DEF Dictionaries
<1> QED
  BY <1>2, <1>3, <1>5

LEMMA OutputWritten ==
    ASSUME NEW d \in Dictionaries, NEW v \in Words, NEW o, o = <<"output">>
    PROVE  Assigned(d, o, v) \in Dictionaries /\ Assigned(d, o, v).period = d.period
<1>1. o[1] = "output"
  OBVIOUS
<1>2. Assigned(d, o, v) = [d EXCEPT !.output = v]
  BY <1>1 DEF Assigned
<1>3. PICK e : e = [d EXCEPT !.output = v]
  OBVIOUS
<1>4. e \in Dictionaries /\ e.period = d.period
  BY <1>3 DEF Dictionaries
<1> QED
  BY <1>2, <1>3, <1>4

(* A state of the reception.                                                *)
Receptions == [d : {d \in Dictionaries : d.period = dictPeriod}, ok : BOOLEAN, used : Nat]

LEMMA EntryKeeps ==
    ASSUME DictionaryInv, NEW words \in Seq(Words), NEW n \in 1..Slots, NEW before \in Receptions
    PROVE  receive_entry(before, n, words) \in Receptions
<1> DEFINE entry == before.d.slot[n]
           word == words[before.used + 1]
<1>1. /\ before.d \in Dictionaries /\ before.d.period = dictPeriod
      /\ before.ok \in BOOLEAN /\ before.used \in Nat
  BY DEF Receptions
<1>2. entry \in SoundWords
  BY <1>1 DEF Dictionaries, MappingSlots
<1>3. PICK fails : fails = [before EXCEPT !.ok = FALSE]
  OBVIOUS
<1>4. fails \in Receptions
  BY <1>3 DEF Receptions
<1>5. ASSUME entry # Zero, ~(before.used + 1 > Len(words)), Accepts(entry[1], word, TRUE)
      PROVE  [d |-> Assigned(before.d, entry[1], word), ok |-> TRUE, used |-> before.used + 1]
                \in Receptions
  <2>1. word \in Words
    BY <1>1, <1>5
  <2>2. /\ Assigned(before.d, entry[1], word) \in Dictionaries
        /\ Assigned(before.d, entry[1], word).period = before.d.period
    <3>1. CASE entry[1] = <<"output">>
      BY <3>1, <1>1, <2>1, OutputWritten
    <3>2. ASSUME NEW s \in MappingSlots, entry[1] = <<"slot", s>>
          PROVE  /\ Assigned(before.d, entry[1], word) \in Dictionaries
                 /\ Assigned(before.d, entry[1], word).period = before.d.period
      <4>1. entry[1][1] = "slot"
        BY <3>2
      <4>2. word \in SoundWords
        BY <4>1, <1>5, ValidIsSound DEF Accepts
      <4> QED
        BY <3>2, <4>2, <1>1, SlotWritten
    <3> QED
      BY <3>1, <3>2, <1>2, <1>5, SoundWordShape
  <2> QED
    BY <1>1, <2>2 DEF Receptions
<1> HIDE DEF entry, word
<1>6. receive_entry(before, n, words)
        = IF n > count \/ ~before.ok THEN before
          ELSE IF entry = Zero \/ before.used + 1 > Len(words) THEN fails
          ELSE IF ~Accepts(entry[1], word, TRUE) THEN fails
          ELSE [d |-> Assigned(before.d, entry[1], word), ok |-> TRUE,
                used |-> before.used + 1]
  BY <1>3, Zenon DEF receive_entry, entry, word
<1> QED
  BY <1>4, <1>5, <1>6, Zenon

(* Whatever a frame holds, the entries that it writes leave it sound.       *)
LEMMA FrameKeeps ==
    ASSUME DictionaryInv, NEW words \in Seq(Words)
    PROVE  receive_from(words) \in Receptions
<1>1. PICK f : /\ receive_from(words) = f[Slots] /\ f[0] = Unread
               /\ \A n \in 1..Slots : f[n] = receive_entry(f[n - 1], n, words)
  BY ReceptionSteps
<1>2. Slots \in Nat
  BY DictionaryAssumption
<1>3. Unread \in Receptions
  <2>1. dictionary \in Dictionaries /\ dictionary.period = dictPeriod
    BY DEF DictionaryInv, dictionary
  <2> HIDE DEF dictionary
  <2> QED
    BY <2>1 DEF Unread, Receptions
<1> DEFINE T == {n \in 0..Slots : f[n] \notin Receptions}
<1>4. ASSUME T # {} PROVE FALSE
  <2>1. PICK m \in T : \A k \in T : m <= k
    <3>1. T \in SUBSET Nat
      OBVIOUS
    <3> HIDE DEF T
    <3> QED
      BY <1>4, <3>1, LeastNumber
  <2>2. m # 0
    BY <1>1, <1>3, <2>1
  <2>3. m \in 1..Slots /\ m - 1 \in 0..Slots /\ ~(m <= m - 1)
    BY <1>2, <2>1, <2>2
  <2>4. m - 1 \notin T
    BY <2>1, <2>3
  <2>5. f[m - 1] \in Receptions
    BY <2>3, <2>4
  <2>6. f[m] \in Receptions
    BY <1>1, <2>3, <2>5, EntryKeeps
  <2> QED
    BY <2>1, <2>6
<1>5. Slots \in 0..Slots
  BY <1>2
<1> QED
  BY <1>1, <1>4, <1>5

LEMMA RoutedKeeps ==
    ASSUME DictionaryInv, NEW words \in Seq(Words), NEW id
    PROVE  Routed(id, words).d \in Dictionaries /\ Routed(id, words).d.period = dictPeriod
<1>1. dictionary \in Dictionaries /\ dictionary.period = dictPeriod
  BY DEF DictionaryInv, dictionary
<1>2. receive_from(words).d \in Dictionaries /\ receive_from(words).d.period = dictPeriod
  BY FrameKeeps DEF Receptions
<1> HIDE DEF dictionary
<1>3. Routed(id, words).d = dictionary \/ Routed(id, words).d = receive_from(words).d
  BY DEF Routed
<1> QED
  BY <1>1, <1>2, <1>3

(* A dictionary value that is taken over.                                   *)
LEMMA BecomesKeeps ==
    ASSUME NEW d \in Dictionaries, Becomes(d), nodePeriod' = d.period
    PROVE  DictionaryInv'
BY DEF Dictionaries, Becomes, DictionaryInv, dictionary

LEMMA DictionaryStarts == DictionaryInit => DictionaryInv
<1> SUFFICES ASSUME DictionaryInit PROVE DictionaryInv
  OBVIOUS
<1>1. Slots \in Nat
  BY DictionaryAssumption
<1>2. Zero \in SoundWords /\ Zero \in Words
  BY DEF SoundWords, Words
<1> QED
  BY <1>1, <1>2 DEF DictionaryInit, DictionaryInv, dictionary, Dictionaries, Identifiers

(* What a download writes.                                                  *)
LEMMA DownloadKeeps ==
    ASSUME NEW d \in Dictionaries, NEW o \in ObjectKeys, NEW v \in WireValues(o),
           NEW fits \in BOOLEAN, Accepts(o, v, fits)
    PROVE  /\ Assigned(d, o, v) \in Dictionaries
           /\ Assigned(d, o, v).period = IF o[1] = "heartbeat" THEN v ELSE d.period
<1>1. Slots \in Nat
  BY DictionaryAssumption
<1>2. ASSUME NEW s \in MappingSlots, o = <<"slot", s>>
      PROVE  /\ Assigned(d, o, v) \in Dictionaries
             /\ Assigned(d, o, v).period = IF o[1] = "heartbeat" THEN v ELSE d.period
  <2>1. o[1] = "slot"
    BY <1>2
  <2>2. v \in SoundWords
    BY <2>1, ValidIsSound DEF Accepts
  <2>3. Assigned(d, o, v) \in Dictionaries /\ Assigned(d, o, v).period = d.period
    BY <1>2, <2>2, SlotWritten
  <2> QED
    BY <2>1, <2>3
<1>3. CASE o = <<"output">>
  <2>1. o[1] = "output"
    BY <1>3
  <2>2. v \in Words
    BY <2>1 DEF WireValues
  <2>3. Assigned(d, o, v) \in Dictionaries /\ Assigned(d, o, v).period = d.period
    BY <1>3, <2>2, OutputWritten
  <2> QED
    BY <2>1, <2>3
<1>4. CASE o = <<"count">>
  <2>1. o[1] = "count" /\ v \in 0..Slots
    BY <1>1, <1>4 DEF WireValues, Accepts
  <2>2. PICK e : e = [d EXCEPT !.count = v]
    OBVIOUS
  <2>3. Assigned(d, o, v) = e
    BY <2>1, <2>2 DEF Assigned
  <2>4. e \in Dictionaries /\ e.period = d.period
    BY <2>1, <2>2 DEF Dictionaries
  <2> QED
    BY <2>1, <2>3, <2>4
<1>5. CASE o = <<"identifier">>
  <2>1. o[1] = "identifier" /\ v \in Identifiers
    BY <1>5 DEF WireValues
  <2>2. PICK e : e = [d EXCEPT !.identifier = v]
    OBVIOUS
  <2>3. Assigned(d, o, v) = e
    BY <2>1, <2>2 DEF Assigned
  <2>4. e \in Dictionaries /\ e.period = d.period
    BY <2>1, <2>2 DEF Dictionaries
  <2> QED
    BY <2>1, <2>3, <2>4
<1>6. CASE o = <<"heartbeat">>
  <2>1. o[1] = "heartbeat" /\ v \in HeartbeatPeriods
    BY <1>6 DEF WireValues
  <2>2. PICK e : e = [d EXCEPT !.period = v]
    OBVIOUS
  <2>3. Assigned(d, o, v) = e
    BY <2>1, <2>2 DEF Assigned
  <2>4. e \in Dictionaries /\ e.period = v
    BY <2>1, <2>2 DEF Dictionaries
  <2> QED
    BY <2>1, <2>3, <2>4
<1>7. CASE o = <<"other">>
  <2>1. o[1] = "other"
    BY <1>7
  <2>2. Assigned(d, o, v) = d
    BY <2>1 DEF Assigned
  <2> QED
    BY <2>1, <2>2
<1>8. CASE o = <<"device_type">> \/ o = <<"error_register">>
  BY <1>8 DEF Accepts, writable
<1> QED
  BY <1>2, <1>3, <1>4, <1>5, <1>6, <1>7, <1>8 DEF ObjectKeys, ObjectNames

LEMMA DictionaryStep == DictionaryInv /\ [DictionaryNext]_dictionaryVars => DictionaryInv'
<1> SUFFICES ASSUME DictionaryInv, [DictionaryNext]_dictionaryVars PROVE DictionaryInv'
  OBVIOUS
<1>1. CASE UNCHANGED dictionaryVars
  BY <1>1 DEF DictionaryInv, dictionary, dictionaryVars
<1>2. ASSUME NEW n \in 0..2, NEW words \in [1..n -> Words], ReceiveFrame(words)
      PROVE  DictionaryInv'
  <2>1. words \in Seq(Words)
    OBVIOUS
  <2>2. Routed("pdo", words).d \in Dictionaries /\ Routed("pdo", words).d.period = dictPeriod
    BY <2>1, RoutedKeeps
  <2> QED
    BY <1>2, <2>2, BecomesKeeps DEF ReceiveFrame, DictionaryInv
<1>3. ASSUME NEW o, NEW v, OfWords(o) => v \in Words
      PROVE  sdo_seen(o, v).d \in Dictionaries /\ sdo_seen(o, v).d.period = dictPeriod
  <2> DEFINE second == IF OfWords(o) THEN v ELSE <<"unknown">>
  <2>1. <<"unknown">> \in Words /\ second \in Words
    BY <1>3 DEF Words
  <2> HIDE DEF second
  <2>2. <<<<"unknown">>, second>> \in Seq(Words)
    BY <2>1
  <2> QED
    BY <2>2, RoutedKeeps DEF sdo_seen, second
<1>4. CASE Upload
  <2>1. Zero \in Words
    BY DEF Words
  <2> QED
    BY <1>3, <1>4, <2>1, BecomesKeeps DEF Upload, DictionaryInv
<1>5. ASSUME NEW o \in ObjectKeys, NEW v \in WireValues(o), NEW fits \in BOOLEAN,
             Download(o, v, fits)
      PROVE  DictionaryInv'
  <2>1. OfWords(o) => v \in Words
    BY DEF OfWords, WireValues
  <2>2. sdo_seen(o, v).d \in Dictionaries /\ sdo_seen(o, v).d.period = dictPeriod
    BY <1>3, <2>1
  <2>3. CASE sdo_seen(o, v).taken \/ ~Accepts(o, v, fits)
    BY <1>5, <2>2, <2>3, BecomesKeeps DEF Download, DictionaryInv
  <2>4. CASE ~sdo_seen(o, v).taken /\ Accepts(o, v, fits)
    <3>1. PICK d : d = Assigned(sdo_seen(o, v).d, o, v)
      OBVIOUS
    <3>2. /\ d \in Dictionaries
          /\ d.period = IF o[1] = "heartbeat" THEN v ELSE dictPeriod
      BY <2>2, <2>4, <3>1, DownloadKeeps
    <3>3. Becomes(d) /\ nodePeriod' = IF o[1] = "heartbeat" THEN v ELSE nodePeriod
      BY <1>5, <2>4, <3>1 DEF Download
    <3>4. nodePeriod' = d.period
      BY <3>2, <3>3 DEF DictionaryInv
    <3> QED
      BY <3>2, <3>3, <3>4, BecomesKeeps
  <2> QED
    BY <2>3, <2>4
<1> QED
  BY <1>1, <1>2, <1>4, <1>5 DEF DictionaryNext

(* However many entries a mapping has, frames that rewrite it while they    *)
(* are received leave only entries that a receive PDO may write, and none   *)
(* reaches the heartbeat's period (CanopenReceivePdoRouter::receive_from,   *)
(* valid_mapping, apply_write_effects).                                     *)
THEOREM DictionaryStaysSound == DictionarySpec => []DictionarySound
<1>1. DictionaryInv => DictionarySound
  <2> SUFFICES ASSUME DictionaryInv PROVE DictionarySound
    OBVIOUS
  <2>1. slot \in [MappingSlots -> SoundWords] /\ nodePeriod = dictPeriod
    BY DEF DictionaryInv, Dictionaries, dictionary
  <2> QED
    BY <2>1 DEF DictionarySound, SoundWords
<1> QED
  BY <1>1, DictionaryStarts, DictionaryStep, PTL DEF DictionarySpec

(* The dictionary's variables keep their types (CanopenDictionary).         *)
THEOREM DictionaryTypes == DictionarySpec => []DictionaryTypeOK
<1>1. DictionaryInv => DictionaryTypeOK
  <2> SUFFICES ASSUME DictionaryInv PROVE DictionaryTypeOK
    OBVIOUS
  <2>1. SoundWords \subseteq Words
    <3>1. ASSUME NEW o \in Mappable PROVE <<o, TRUE>> \in Descriptors
      <4>1. PICK exact \in BOOLEAN : exact = TRUE
        OBVIOUS
      <4>2. Descriptors = {<<p, e>> : p \in Mappable, e \in BOOLEAN}
        BY SMT DEF Descriptors
      <4>3. <<o, exact>> \in Descriptors
        BY <4>2
      <4> QED
        BY <4>1, <4>3, Zenon
    <3>2. \A o \in {m \in Mappable : rpdo_mappable(m)} : <<o, TRUE>> \in Words
      BY <3>1, Zenon DEF Words
    <3> QED
      BY <3>2 DEF SoundWords, Words
  <2>2. /\ slot \in [MappingSlots -> SoundWords] /\ count \in 0..Slots
        /\ identifier \in Identifiers /\ output \in Words
        /\ dictPeriod \in HeartbeatPeriods \cup {0} /\ nodePeriod = dictPeriod
    BY DEF DictionaryInv, dictionary, Dictionaries
  <2> QED
    BY <2>1, <2>2 DEF DictionaryTypeOK
<1> QED
  BY <1>1, DictionaryStarts, DictionaryStep, PTL DEF DictionarySpec

-----------------------------------------------------------------------------
(* The types of the SDO client.                                             *)

(* The requests among the first m frames, counted up.                       *)
Selected(f, m, frames) ==
    f = [n \in 0..m |->
            IF n = 0 THEN <<>>
            ELSE IF IsRequest(frames[n]) THEN Append(f[n - 1], frames[n]) ELSE f[n - 1]]

(* One more frame can always be looked at.                                  *)
LEMMA SelectsNext ==
    ASSUME NEW frames, NEW m \in Nat, m # 0, NEW f, Selected(f, m - 1, frames)
    PROVE  \E g : Selected(g, m, frames)
<1> DEFINE next(a, n) == IF IsRequest(frames[n]) THEN Append(a, frames[n]) ELSE a
           g == [n \in 0..m |-> IF n < m THEN f[n] ELSE next(f[m - 1], m)]
           h == [n \in 0..m |-> IF n = 0 THEN <<>> ELSE next(g[n - 1], n)]
<1> HIDE DEF next
<1>1. \A n \in 0..m : g[n] = h[n]
  <2> SUFFICES ASSUME NEW n \in 0..m PROVE g[n] = h[n]
    OBVIOUS
  <2>1. CASE n = 0
    BY <2>1 DEF Selected
  <2>2. CASE n # 0 /\ n < m
    <3>1. n \in 0..m - 1 /\ n - 1 \in 0..m /\ n - 1 < m
      BY <2>2
    <3>2. f[n] = next(f[n - 1], n)
      BY <2>2, <3>1 DEF Selected, next
    <3>3. g[n - 1] = f[n - 1]
      BY <3>1
    <3>4. g[n] = f[n] /\ h[n] = next(g[n - 1], n)
      BY <2>2
    <3> QED
      BY <3>2, <3>3, <3>4
  <2>3. CASE n = m
    <3>1. m - 1 \in 0..m /\ m - 1 < m
      OBVIOUS
    <3>2. g[m - 1] = f[m - 1]
      BY <3>1
    <3>3. g[n] = next(f[m - 1], m) /\ h[n] = next(g[m - 1], m)
      BY <2>3
    <3> QED
      BY <3>2, <3>3
  <2> QED
    BY <2>1, <2>2, <2>3
<1>2. g = h
  BY <1>1
<1> HIDE DEF g
<1>3. Selected(g, m, frames)
  BY <1>2 DEF Selected, next
<1> QED
  BY <1>3

LEMMA SelectionExists ==
    ASSUME NEW frames, NEW m \in Nat
    PROVE  \E f : Selected(f, m, frames)
<1> DEFINE T == {k \in Nat : ~\E f : Selected(f, k, frames)}
<1>1. ASSUME T # {} PROVE FALSE
  <2>1. PICK k \in T : \A j \in T : k <= j
    BY <1>1, LeastNumber
  <2>2. CASE k = 0
    <3>1. Selected([n \in 0..0 |-> <<>>], 0, frames)
      BY DEF Selected
    <3> QED
      BY <2>2, <3>1
  <2>3. CASE k # 0
    <3>1. k - 1 \in Nat /\ ~(k <= k - 1)
      BY <2>3
    <3>2. k - 1 \notin T
      BY <2>1, <3>1
    <3>3. PICK f : Selected(f, k - 1, frames)
      BY <3>1, <3>2
    <3> QED
      BY <2>3, <3>3, SelectsNext
  <2> QED
    BY <2>2, <2>3
<1> QED
  BY <1>1

(* Frames of the client and of the node itself.                             *)
OfferedFrames == RemoteObjects \cup {"own"}

(* What is selected are requests, and no more than there were frames.       *)
LEMMA RequestsSelected ==
    ASSUME NEW frames \in Seq(OfferedFrames)
    PROVE  requests(frames) \in Seq(RemoteObjects) /\ Len(requests(frames)) <= Len(frames)
<1> DEFINE f == CHOOSE g : Selected(g, Len(frames), frames)
           T == {n \in 0..Len(frames) : ~(f[n] \in Seq(RemoteObjects) /\ Len(f[n]) <= n)}
<1>1. requests(frames) = f[Len(frames)]
  BY DEF requests, Selected
<1>2. Len(frames) \in Nat
  OBVIOUS
<1>3. Selected(f, Len(frames), frames)
  BY <1>2, SelectionExists
<1> HIDE DEF f
<1>4. ASSUME T # {} PROVE FALSE
  <2>0. T \in SUBSET Nat
    BY <1>2
  <2>1. PICK n \in T : \A j \in T : n <= j
    BY <1>4, <2>0, LeastNumber
  <2>2. n # 0
    BY <1>2, <1>3 DEF Selected
  <2>3. n \in 1..Len(frames) /\ n - 1 \in 0..Len(frames) /\ ~(n <= n - 1)
    BY <1>2, <2>2
  <2>4. f[n - 1] \in Seq(RemoteObjects) /\ Len(f[n - 1]) <= n - 1
    BY <2>1, <2>3
  <2>5. f[n] = IF IsRequest(frames[n]) THEN Append(f[n - 1], frames[n]) ELSE f[n - 1]
    BY <1>3, <2>2 DEF Selected
  <2>6. frames[n] \in OfferedFrames
    BY <2>3
  <2>7. CASE IsRequest(frames[n])
    <3>1. frames[n] \in RemoteObjects
      BY <2>6, <2>7 DEF OfferedFrames, IsRequest
    <3>2. f[n] \in Seq(RemoteObjects) /\ Len(f[n]) = Len(f[n - 1]) + 1
      BY <2>4, <2>5, <2>7, <3>1
    <3> QED
      BY <2>3, <2>4, <3>2
  <2>8. CASE ~IsRequest(frames[n])
    BY <2>3, <2>4, <2>5, <2>8
  <2> QED
    BY <2>7, <2>8
<1>5. Len(frames) \notin T
  BY <1>4
<1> QED
  BY <1>1, <1>2, <1>5

(* The types of the client.  The three places that hold frames are           *)
(* sequences.                                                               *)
FramesTyped ==
    queue \in Seq(OfferedFrames) /\ inbox \in Seq(RemoteObjects) /\ bus \in Seq(Answers)
SdoRest ==
    /\ exerciser \in {"off", "cycle", "read", "read_wait", "write", "write_wait"}
    /\ attempt \in 0..MaxAttempts
    /\ mailbox \in RemoteObjects \cup {"none"}
    /\ taken \in Answers \cup {Nothing} /\ result \in Answers \cup {Nothing}
    /\ input \in Inputs /\ value \in Inputs \cup {NoInput} /\ seen \subseteq Inputs
SdoFlags == over \in BOOLEAN /\ given \in BOOLEAN
FramesFit == Len(queue) + Len(inbox) + Len(bus) <= MaxFrames
SdoTyped == FramesTyped /\ FramesFit /\ SdoRest

LEMMA SdoTypedStarts == SdoInit => SdoTyped
<1> SUFFICES ASSUME SdoInit PROVE SdoTyped
  OBVIOUS
<1>1. FramesTyped /\ FramesFit
  BY SdoAssumption DEF SdoInit, FramesTyped, FramesFit
<1>2. SdoRest
  BY SdoAssumption DEF SdoInit, SdoRest
<1> QED
  BY <1>1, <1>2 DEF SdoTyped

(* Offering a frame leaves no more frames than there were, and the new one. *)
LEMMA OfferTyped ==
    ASSUME SdoTyped, FrameRoom, NEW frame \in OfferedFrames, offer(frame), UNCHANGED bus
    PROVE  FramesTyped' /\ FramesFit'
<1> DEFINE all == Append(queue, frame)
<1>1. /\ queue \in Seq(OfferedFrames) /\ inbox \in Seq(RemoteObjects) /\ bus \in Seq(Answers)
      /\ all \in Seq(OfferedFrames) /\ Len(all) = Len(queue) + 1
      /\ Len(queue) \in Nat /\ Len(inbox) \in Nat /\ Len(bus) \in Nat
  BY DEF SdoTyped, FramesTyped
<1>2. PICK sent \in 0..Len(all) : /\ queue' = SubSeq(all, sent + 1, Len(all))
                                  /\ inbox' = inbox \o requests(SubSeq(all, 1, sent))
  BY DEF offer
<1> HIDE DEF all
<1>3. SubSeq(all, 1, sent) \in Seq(OfferedFrames) /\ Len(SubSeq(all, 1, sent)) = sent
  BY <1>1, <1>2
<1>4. SubSeq(all, sent + 1, Len(all)) \in Seq(OfferedFrames)
      /\ Len(SubSeq(all, sent + 1, Len(all))) = Len(all) - sent
  BY <1>1, <1>2
<1>5. PICK asked : asked = requests(SubSeq(all, 1, sent))
  OBVIOUS
<1>5a. asked \in Seq(RemoteObjects) /\ Len(asked) <= sent
  BY <1>3, <1>5, RequestsSelected
<1>6. inbox' \in Seq(RemoteObjects) /\ Len(inbox') = Len(inbox) + Len(asked)
      /\ Len(asked) \in Nat
  BY <1>1, <1>2, <1>5, <1>5a
<1>7. MaxFrames \in Nat
  BY SdoAssumption
<1>8. Len(queue') + Len(inbox') + Len(bus') <= MaxFrames
  <2>1. Len(queue') = Len(queue) + 1 - sent /\ sent \in Nat
    BY <1>1, <1>2, <1>4
  <2>2. Len(queue) + Len(inbox) + Len(bus) < MaxFrames /\ Len(bus') = Len(bus)
    BY DEF FrameRoom
  <2> QED
    BY <1>1, <1>5a, <1>6, <1>7, <2>1, <2>2
<1> QED
  BY <1>1, <1>2, <1>4, <1>6, <1>8 DEF FramesTyped, FramesFit

LEMMA SdoTypedStep == SdoTyped /\ [SdoNext]_sdoVars => SdoTyped'
<1> SUFFICES ASSUME SdoTyped, [SdoNext]_sdoVars PROVE SdoTyped'
  OBVIOUS
<1>0. SdoRest /\ FramesTyped /\ FramesFit /\ Nothing \notin Answers /\ MaxAttempts \in Nat
  BY SdoAssumption DEF SdoTyped, Nothing, Answers, RemoteObjects
<1>1. CASE UNCHANGED <<queue, inbox, bus>> /\ SdoRest'
  BY <1>0, <1>1 DEF SdoTyped, FramesTyped, FramesFit
<1>2. CASE UNCHANGED sdoVars
  BY <1>0, <1>1, <1>2 DEF sdoVars, SdoRest
<1>3. CASE OfferOwn
  <2>1. FramesTyped' /\ FramesFit'
    BY <1>3, OfferTyped DEF OfferOwn, OfferedFrames
  <2> QED
    BY <1>0, <1>3, <2>1 DEF OfferOwn, SdoTyped, SdoRest
<1>4. ASSUME NEW object \in RemoteObjects, NEW from,
             NEW to \in {"read_wait", "write_wait"}, Begin(object, from, to)
      PROVE  SdoTyped'
  <2>1. SdoRest'
    BY <1>0, <1>4 DEF Begin, SdoRest
  <2>2. CASE mailbox = "none"
    BY <1>4, <2>1, <2>2, OfferTyped DEF Begin, OfferedFrames, SdoTyped
  <2>3. CASE mailbox # "none"
    BY <1>1, <1>4, <2>1, <2>3 DEF Begin
  <2> QED
    BY <2>2, <2>3
<1>5. CASE BeginRead \/ BeginWrite
  BY <1>4, <1>5 DEF BeginRead, BeginWrite, RemoteObjects
<1>6. CASE ReadAnswered
  <2>1. Succeeded => result.value \in Inputs \cup {NoInput}
    BY <1>0 DEF Succeeded, SdoRest, Answers
  <2> QED
    BY <1>0, <1>1, <1>6, <2>1 DEF ReadAnswered, SdoRest
<1>7. CASE WriteAnswered
  BY <1>0, <1>1, <1>7 DEF WriteAnswered, SdoRest
<1>8. CASE WaitExpires
  BY <1>0, <1>1, <1>8 DEF WaitExpires, SdoRest
<1>9. CASE Start \/ RunsOut
  BY <1>0, <1>1, <1>9 DEF Start, RunsOut, SdoRest
<1>10. CASE BeginCycle
  BY <1>0, <1>1, <1>10 DEF BeginCycle, SdoRest
<1>11. CASE GiveUp
  BY <1>0, <1>1, <1>11 DEF GiveUp, SdoRest
<1>12. CASE RemoteHandles
  <2>1. /\ Head(inbox) \in RemoteObjects /\ inbox' \in Seq(RemoteObjects)
        /\ Len(inbox') = Len(inbox) - 1 /\ Len(inbox) \in Nat /\ Len(bus) \in Nat
        /\ Len(queue) \in Nat
    BY <1>0, <1>12 DEF RemoteHandles, FramesTyped
  <2>2. \A ok \in BOOLEAN : AnswerTo(Head(inbox), ok) \in Answers
    BY <1>0, <2>1 DEF AnswerTo, Answers, Codes, SdoRest
  <2>3. bus' \in Seq(Answers) /\ Len(bus') \in {Len(bus), Len(bus) + 1}
    <3>1. CASE UNCHANGED bus
      BY <1>0, <3>1 DEF FramesTyped
    <3>2. ASSUME NEW ok \in BOOLEAN, bus' = Append(bus, AnswerTo(Head(inbox), ok))
          PROVE  bus' \in Seq(Answers) /\ Len(bus') = Len(bus) + 1
      <4>1. PICK answer \in Answers : answer = AnswerTo(Head(inbox), ok)
        BY <2>2
      <4> QED
        BY <1>0, <3>2, <4>1 DEF FramesTyped
    <3> QED
      BY <1>12, <3>1, <3>2 DEF RemoteHandles
  <2>4. MaxFrames \in Nat
    BY SdoAssumption
  <2>5. FramesTyped' /\ FramesFit'
    BY <1>0, <1>12, <2>1, <2>3, <2>4 DEF RemoteHandles, FramesTyped, FramesFit
  <2> QED
    BY <1>0, <1>12, <2>5 DEF RemoteHandles, SdoRest, SdoTyped
<1>13. CASE InputsChange
  BY <1>0, <1>1, <1>13 DEF InputsChange, SdoRest
<1>14. CASE ReceiveAnswer
  <2>1. /\ Head(bus) \in Answers /\ bus' \in Seq(Answers) /\ Len(bus') = Len(bus) - 1
        /\ Len(inbox) \in Nat /\ Len(bus) \in Nat /\ Len(queue) \in Nat
    BY <1>0, <1>14 DEF ReceiveAnswer, FramesTyped
  <2>2. MaxFrames \in Nat
    BY SdoAssumption
  <2>3. FramesTyped' /\ FramesFit'
    BY <1>0, <1>14, <2>1, <2>2 DEF ReceiveAnswer, FramesTyped, FramesFit
  <2> QED
    BY <1>0, <1>14, <2>1, <2>3 DEF ReceiveAnswer, SdoRest, SdoTyped
<1>15. CASE Publish
  BY <1>0, <1>1, <1>15 DEF Publish, SdoRest
<1> QED
  BY <1>2, <1>3, <1>5, <1>6, <1>7, <1>8, <1>9, <1>10, <1>11, <1>12, <1>13, <1>14, <1>15
     DEF SdoNext

(* The client's variables keep their types, and the frames in the queue, at *)
(* the node and on the bus their bound, whatever comes late or overtakes    *)
(* (CanopenSdoMailbox, CanPendingTransmitter).                              *)
THEOREM SdoTypes == SdoSpec => []SdoTypeOK
<1>1. SdoTyped /\ SdoFlags => SdoTypeOK
  BY DEF SdoTyped, FramesTyped, FramesFit, SdoRest, SdoFlags, SdoTypeOK, OfferedFrames
<1>2. SdoInit => SdoFlags
  BY Zenon DEF SdoInit, SdoFlags
<1>3. SdoFlags /\ [SdoNext]_sdoVars => SdoFlags'
  <2> SUFFICES ASSUME SdoFlags, [SdoNext]_sdoVars PROVE SdoFlags'
    OBVIOUS
  <2>1. CASE UNCHANGED <<over, given>>
    BY <2>1, Zenon DEF SdoFlags
  <2>2. CASE UNCHANGED over /\ given' \in BOOLEAN
    BY <2>2, Zenon DEF SdoFlags
  <2>3. CASE UNCHANGED given /\ over' \in BOOLEAN
    BY <2>3, Zenon DEF SdoFlags
  <2> QED
    BY <2>1, <2>2, <2>3 DEF SdoNext, sdoVars, OfferOwn, BeginRead, BeginWrite, Begin, ReadAnswered,
       WriteAnswered, WaitExpires, Start, RunsOut, BeginCycle, GiveUp, RemoteHandles, InputsChange,
       ReceiveAnswer, Publish
<1> QED
  BY <1>1, <1>2, <1>3, SdoTypedStarts, SdoTypedStep, PTL DEF SdoSpec

-----------------------------------------------------------------------------
(* The CANopen service keeps all its promises, for every heartbeat period,  *)
(* timer, mapping and number of attempts, if no event timer is a single     *)
(* cycle, answers do not outlast their timeout, and the CAN task is not     *)
(* overtaken between clearing the mailbox and publishing (CanopenService,   *)
(* CanopenSdoMailbox).                                                      *)
THEOREM CanopenServes ==
    ASSUME PdoCount \in 1..4, 1 \notin Timers, ~LateAnswers, ~Overtakes
    PROVE  CanopenSpec => []CanServes
<1>1. CanSpec => []NodeReports
  BY MasterHearsTheNode
<1>2. PdoSpec => []TpdoPaced
  BY TransmitPdosArePaced
<1>3. DictionarySpec => []DictionarySound
  BY DictionaryStaysSound
<1>4. SdoSpec => []SdoServes
  BY SdoClientServes
<1>5. NodeReports /\ TpdoPaced /\ DictionarySound /\ SdoServes => CanServes
  BY DEF CanServes
<1> QED
  BY <1>1, <1>2, <1>3, <1>4, <1>5, PTL DEF CanopenSpec

-----------------------------------------------------------------------------
(* The preview.  A player of the current generation is the only one, and    *)
(* plays for the session's viewer; no player is of a generation to come.    *)
OnePlayer ==
    \A p, q \in players :
        p.generation = previewGeneration /\ q.generation = previewGeneration => p = q
PlaysForSession ==
    \A p \in players :
        /\ p.generation <= previewGeneration
        /\ p.generation = previewGeneration => p.socket = session.socket

(* A command is applied to the session that accepted it, and the arbiter    *)
(* ends the one that it has warned.                                         *)
CommandHasSession ==
    /\ handling # NoCommand => handling.name \in Commands /\ session.id # 0 /\ preempting = 0
    /\ session.id # 0 => session.socket \in PreviewSockets
PreemptsWarned ==
    preempting # 0 => preempting = session.id /\ preempting \in warned /\ handling = NoCommand

PreviewInv ==
    /\ PreviewTypeOK /\ OnePlayer /\ PlaysForSession /\ CommandHasSession /\ PreemptsWarned
    /\ dropped \subseteq warned /\ ~misused

LEMMA PreviewStarts == PreviewInit => PreviewInv
<1> SUFFICES ASSUME PreviewInit PROVE PreviewInv
  OBVIOUS
<1>1. /\ 0 \in Frames /\ 0 \in Generations /\ 0 \in 0 .. MaxSessions
  BY PreviewAssumption DEF Frames, Generations
<1>2. misused \in BOOLEAN /\ ~misused
  BY Zenon DEF PreviewInit
<1>3. PreviewTypeOK
  BY <1>1, <1>2 DEF PreviewInit, PreviewTypeOK, NoSession, Session, NoCommand
<1> QED
  BY <1>2, <1>3 DEF PreviewInit, PreviewInv, OnePlayer, PlaysForSession, CommandHasSession,
                    PreemptsWarned, NoSession, Session

(* When the generation moves on, no player is left of the current one.      *)
LEMMA GenerationMovesOn ==
    ASSUME PreviewInv, previewGeneration' \in Nat, previewGeneration' > previewGeneration,
           players' = players
    PROVE  OnePlayer' /\ PlaysForSession'
<1>1. \A p \in players : p.generation \in Nat /\ p.generation <= previewGeneration
  BY PreviewAssumption DEF PreviewInv, PlaysForSession, PreviewTypeOK, Generations
<1>2. previewGeneration \in Nat
  BY PreviewAssumption DEF PreviewInv, PreviewTypeOK, Generations
<1>3. \A p \in players' : p.generation < previewGeneration' /\ p.generation \in Nat
  BY <1>1, <1>2
<1> QED
  BY <1>3 DEF OnePlayer, PlaysForSession

(* What a command makes of the session.                                     *)
LEMMA AppliedSession ==
    ASSUME PreviewInv, handling # NoCommand, NEW next, next = Applied(handling, session)
    PROVE  /\ next \in [id : 0 .. MaxSessions, socket : PreviewSockets \cup {0},
                        mode : {"playing", "paused", "stopped"}, frame : Frames]
           /\ handling.name # "stop" => next.id = session.id /\ next.socket = session.socket
           /\ next.id # 0 => next.socket \in PreviewSockets
<1>1. /\ session \in [id : 0 .. MaxSessions, socket : PreviewSockets \cup {0},
                      mode : {"playing", "paused", "stopped"}, frame : Frames]
      /\ handling.frame \in Frames /\ handling.name \in Commands
      /\ session.id # 0 => session.socket \in PreviewSockets
  BY DEF PreviewInv, PreviewTypeOK, CommandHasSession
<1>2. CASE handling.name = "play"
  <2>1. next = [session EXCEPT !.mode = "playing", !.frame = handling.frame]
    BY <1>2 DEF Applied
  <2> QED
    BY <1>1, <1>2, <2>1
<1>3. CASE handling.name = "resume"
  <2>1. next = [session EXCEPT !.mode = "playing"]
    BY <1>3 DEF Applied
  <2> QED
    BY <1>1, <1>3, <2>1
<1>4. CASE handling.name = "pause"
  <2>1. next = [session EXCEPT !.mode = "paused"]
    BY <1>4 DEF Applied
  <2> QED
    BY <1>1, <1>4, <2>1
<1>5. CASE handling.name = "seek"
  <2>1. next = [session EXCEPT !.frame = handling.frame]
    BY <1>5 DEF Applied
  <2> QED
    BY <1>1, <1>5, <2>1
<1>6. CASE handling.name = "stop"
  <2>1. next = NoSession
    BY <1>6 DEF Applied
  <2>2. 0 \in Frames /\ 0 \in 0 .. MaxSessions
    BY PreviewAssumption DEF Frames
  <2> QED
    BY <1>6, <2>1, <2>2 DEF NoSession, Session
<1> QED
  BY <1>1, <1>2, <1>3, <1>4, <1>5, <1>6 DEF Commands

LEMMA ApplyKeeps ==
    ASSUME PreviewInv, Apply
    PROVE  PreviewInv'
<1> DEFINE now == IF MovesOn(handling.name) THEN previewGeneration + 1 ELSE previewGeneration
<1>1. PICK next : next = Applied(handling, session)
  OBVIOUS
<1>2. /\ next \in [id : 0 .. MaxSessions, socket : PreviewSockets \cup {0},
                   mode : {"playing", "paused", "stopped"}, frame : Frames]
      /\ handling.name # "stop" => next.id = session.id /\ next.socket = session.socket
      /\ next.id # 0 => next.socket \in PreviewSockets
  BY <1>1, AppliedSession DEF Apply
<1>3. /\ handling # NoCommand /\ handling' = NoCommand /\ misused' = (session = NoSession)
      /\ UNCHANGED <<sessions, preempting, warned, dropped>>
      /\ previewGeneration + 2 <= MaxPreviewGenerations
  BY DEF Apply
<1>4. handling.name \in Commands /\ session.id # 0 /\ preempting = 0
  BY <1>3 DEF PreviewInv, CommandHasSession
<1>5. misused' = FALSE
  <2>1. session # NoSession
    BY <1>4 DEF NoSession, Session
  <2> QED
    BY <1>3, <2>1, Zenon
<1>6. previewGeneration \in Nat /\ now \in Nat /\ now \in Generations /\ now + 1 \in Generations
  BY <1>3, PreviewAssumption DEF PreviewInv, PreviewTypeOK, Generations
<1>7. 0 \in Frames /\ 0 \in 0 .. MaxSessions
  BY PreviewAssumption DEF Frames
<1>8. handling' \in [name : Commands \cup {"none"}, frame : Frames]
  BY <1>3, <1>7 DEF NoCommand
<1>9. CASE /\ session' = next /\ previewGeneration' = now
           /\ players' = players \/ (/\ handling.name \in {"play", "resume"}
                                     /\ players' = players \cup {Player(next, now)})
           /\ UNCHANGED connected
  <2>1. ASSUME handling.name \in {"play", "resume"}
        PROVE  /\ Player(next, now) \in [socket : PreviewSockets, generation : Generations,
                                         next : 1 .. LastFrame + 1]
               /\ Player(next, now).generation = now /\ Player(next, now).socket = next.socket
               /\ now = previewGeneration + 1
    <3>1. next.socket \in PreviewSockets /\ next.frame + 1 \in 1 .. LastFrame + 1
      BY <1>2, <1>4, <2>1, PreviewAssumption DEF Frames
    <3>2. now = previewGeneration + 1
      BY <2>1 DEF MovesOn
    <3> HIDE DEF now
    <3> QED
      BY <3>1, <3>2, <1>6 DEF Player
  <2>2. PreviewTypeOK'
    <3>1. players' \subseteq [socket : PreviewSockets, generation : Generations,
                              next : 1 .. LastFrame + 1]
      BY <1>9, <2>1 DEF PreviewInv, PreviewTypeOK
    <3> QED
      BY <1>2, <1>3, <1>5, <1>6, <1>8, <1>9, <3>1 DEF PreviewInv, PreviewTypeOK
  <2>3. OnePlayer' /\ PlaysForSession'
    <3>1. \A p \in players : p.generation \in Nat /\ p.generation <= previewGeneration
      BY PreviewAssumption DEF PreviewInv, PlaysForSession, PreviewTypeOK, Generations
    <3>2. CASE MovesOn(handling.name) /\ players' = players
      BY <3>2, <1>6, <1>9, GenerationMovesOn
    <3>3. CASE ~MovesOn(handling.name) /\ players' = players
      <4>1. previewGeneration' = previewGeneration /\ session'.socket = session.socket
        BY <3>3, <1>2, <1>4, <1>9 DEF MovesOn
      <4> QED
        BY <3>3, <4>1 DEF PreviewInv, OnePlayer, PlaysForSession
    <3>4. CASE handling.name \in {"play", "resume"} /\ players' = players \cup {Player(next, now)}
      <4>1. \A p \in players : p.generation < previewGeneration'
        BY <3>1, <3>4, <2>1, <1>6, <1>9
      <4>2. /\ Player(next, now).generation = previewGeneration'
            /\ Player(next, now).socket = session'.socket
        BY <3>4, <2>1, <1>9
      <4>3. previewGeneration' \in Nat
        BY <1>6, <1>9
      <4> HIDE DEF now
      <4> QED
        BY <3>1, <3>4, <4>1, <4>2, <4>3 DEF OnePlayer, PlaysForSession
    <3> QED
      BY <1>9, <3>2, <3>3, <3>4
  <2> QED
    BY <2>2, <2>3, <1>2, <1>3, <1>4, <1>5, <1>9
       DEF PreviewInv, CommandHasSession, PreemptsWarned
<1>10. CASE /\ session' = NoSession /\ previewGeneration' = now + 1
            /\ connected' = connected \ {session.socket} /\ UNCHANGED players
  <2>1. OnePlayer' /\ PlaysForSession'
    BY <1>10, <1>6, GenerationMovesOn
  <2>2. PreviewTypeOK'
    BY <1>3, <1>5, <1>6, <1>7, <1>8, <1>10 DEF PreviewInv, PreviewTypeOK, NoSession, Session
  <2> QED
    BY <2>1, <2>2, <1>3, <1>4, <1>5, <1>10
       DEF PreviewInv, CommandHasSession, PreemptsWarned, NoSession, Session
<1> QED
  BY <1>1, <1>9, <1>10 DEF Apply

LEMMA PreviewStep ==
    ASSUME ~ArbiterRaces, PreviewInv, [PreviewNext]_previewVars
    PROVE  PreviewInv'
<1> USE DEF PreviewInv
<1>0. /\ 0 \in Frames /\ 0 \in 0 .. MaxSessions /\ previewGeneration \in Nat
      /\ MaxPreviewGenerations \in Nat /\ MaxSessions \in Nat /\ sessions \in Nat
  BY PreviewAssumption DEF Frames, PreviewTypeOK, Generations
<1>1. CASE UNCHANGED previewVars
  BY <1>1 DEF PreviewTypeOK, OnePlayer, PlaysForSession, CommandHasSession, PreemptsWarned,
              previewVars
<1>2. ASSUME NEW s \in PreviewSockets, Connects(s) \/ Disconnects(s) PROVE PreviewInv'
  BY <1>2 DEF Connects, Disconnects, PreviewTypeOK, OnePlayer, PlaysForSession,
              CommandHasSession, PreemptsWarned
<1>3. ASSUME NEW s \in PreviewSockets, MessageFails(s) PROVE PreviewInv'
  <2>1. CASE session.id # 0 /\ session.socket = s
    <3>1. OnePlayer' /\ PlaysForSession'
      BY <1>0, <1>3, <2>1, GenerationMovesOn DEF MessageFails
    <3>2. PreviewTypeOK'
      BY <1>0, <1>3, <2>1 DEF MessageFails, PreviewTypeOK, NoSession, Session, Generations
    <3> QED
      BY <1>3, <2>1, <3>1, <3>2 DEF MessageFails, ServerIdle, CommandHasSession,
                                    PreemptsWarned, NoSession, Session
  <2>2. CASE ~(session.id # 0 /\ session.socket = s)
    BY <1>3, <2>2 DEF MessageFails, PreviewTypeOK, OnePlayer, PlaysForSession,
                      CommandHasSession, PreemptsWarned
  <2> QED
    BY <2>1, <2>2
<1>4. ASSUME NEW s \in PreviewSockets, Open(s) PROVE PreviewInv'
  <2>1. /\ previewGeneration' \in Generations /\ previewGeneration' > previewGeneration
        /\ previewGeneration' \in Nat
    BY <1>0, <1>4 DEF Open, Generations
  <2>2. OnePlayer' /\ PlaysForSession'
    BY <1>4, <2>1, GenerationMovesOn DEF Open
  <2>3. /\ session' = Session(sessions + 1, s, "stopped", 0) /\ sessions' = sessions + 1
        /\ sessions + 1 \in 1 .. MaxSessions
    BY <1>0, <1>4 DEF Open
  <2>4. /\ warned' \subseteq 1 .. MaxSessions /\ dropped' \subseteq 1 .. MaxSessions
        /\ dropped' \subseteq warned'
    <3>1. session.id # 0 => session.id \in 1 .. MaxSessions
      BY <1>0 DEF PreviewTypeOK
    <3> QED
      BY <1>4, <3>1 DEF Open, PreviewTypeOK
  <2>5. PreviewTypeOK'
    BY <1>0, <1>4, <2>1, <2>3, <2>4 DEF Open, PreviewTypeOK, Session
  <2>6. session'.id # 0 /\ session'.socket = s
    BY <1>0, <2>3 DEF Session
  <2> QED
    BY <1>4, <2>2, <2>4, <2>5, <2>6 DEF Open, ServerIdle, CommandHasSession, PreemptsWarned
<1>5. ASSUME NEW name \in Commands, NEW frame \in Frames, Accept(name, frame) PROVE PreviewInv'
  <2>1. handling' \in [name : Commands \cup {"none"}, frame : Frames] /\ handling'.name = name
    BY <1>5 DEF Accept
  <2>2. PreviewTypeOK'
    BY <1>5, <2>1 DEF Accept, PreviewTypeOK
  <2> QED
    BY <1>5, <2>1, <2>2 DEF Accept, ServerIdle, OnePlayer, PlaysForSession, CommandHasSession,
                            PreemptsWarned
<1>6. CASE Apply
  BY <1>6, ApplyKeeps
<1>7. ASSUME NEW p \in players, PlayerSends(p) PROVE PreviewInv'
  <2>1. PICK q : q = [p EXCEPT !.next = @ + 1]
    OBVIOUS
  <2>2. /\ p.next <= LastFrame /\ p.generation = previewGeneration
        /\ p \in [socket : PreviewSockets, generation : Generations, next : 1 .. LastFrame + 1]
    BY <1>7 DEF PlayerSends, PlayerGoesOn, PreviewTypeOK
  <2>3. /\ q \in [socket : PreviewSockets, generation : Generations, next : 1 .. LastFrame + 1]
        /\ q.socket = p.socket /\ q.generation = p.generation
    BY <2>1, <2>2, PreviewAssumption
  <2>4. players' = (players \ {p}) \cup {q} \/ players' = players \ {p}
    BY <1>7, <2>1 DEF PlayerSends
  <2>5. /\ UNCHANGED <<connected, session, sessions, previewGeneration, handling, preempting,
                       warned, dropped, misused>>
    BY <1>7 DEF PlayerSends
  <2>6. PreviewTypeOK'
    BY <2>3, <2>4, <2>5 DEF PreviewTypeOK
  <2>7. OnePlayer' /\ PlaysForSession'
    BY <2>2, <2>3, <2>4, <2>5 DEF OnePlayer, PlaysForSession
  <2> QED
    BY <2>5, <2>6, <2>7 DEF CommandHasSession, PreemptsWarned
<1>8. ASSUME NEW p \in players, PlayerEnds(p) PROVE PreviewInv'
  BY <1>8 DEF PlayerEnds, PreviewTypeOK, OnePlayer, PlaysForSession, CommandHasSession,
              PreemptsWarned
<1>9. CASE PreemptBegins
  <2>1. session.id \in 1 .. MaxSessions
    BY <1>0, <1>9 DEF PreemptBegins, PreviewTypeOK
  <2>2. PreviewTypeOK'
    BY <1>0, <1>9, <2>1 DEF PreemptBegins, PreviewTypeOK
  <2> QED
    BY <1>9, <2>1, <2>2 DEF PreemptBegins, OnePlayer, PlaysForSession, CommandHasSession,
                            PreemptsWarned
<1>10. CASE preempt_preview_for_live
  <2>1. OnePlayer' /\ PlaysForSession'
    BY <1>0, <1>10, GenerationMovesOn DEF preempt_preview_for_live
  <2>2. /\ dropped' \subseteq warned' /\ handling = NoCommand
        /\ dropped' \subseteq 1 .. MaxSessions
    BY <1>10 DEF preempt_preview_for_live, PreemptsWarned, PreviewTypeOK
  <2>3. PreviewTypeOK'
    BY <1>0, <1>10, <2>2 DEF preempt_preview_for_live, PreviewTypeOK, NoSession, Session,
                             Generations
  <2> QED
    BY <1>10, <2>1, <2>2, <2>3 DEF preempt_preview_for_live, CommandHasSession, PreemptsWarned,
                                   NoSession, Session
<1> QED
  BY <1>1, <1>2, <1>3, <1>4, <1>5, <1>6, <1>7, <1>8, <1>9, <1>10 DEF PreviewNext

(* A preview plays for its own viewer with one task, tells a session that   *)
(* others end, and never uses one that is not there, for any sockets,       *)
(* recordings and faults, if the arbiter and a handler do not act in the    *)
(* middle of one another (preview_websocket_handler).                       *)
THEOREM PreviewIsServed ==
    ASSUME ~ArbiterRaces
    PROVE  PreviewSpec => []PreviewServes
<1>1. PreviewInv => PreviewServes
  <2> SUFFICES ASSUME PreviewInv PROVE PreviewServes
    OBVIOUS
  <2> DEFINE P == {p \in players : p.generation = previewGeneration}
  <2>1. Cardinality(P) <= 1
    <3>1. CASE P = {}
      BY <3>1, FS_EmptySet
    <3>2. CASE P # {}
      <4>1. PICK p \in P : TRUE
        BY <3>2
      <4>2. P = {p}
        BY <4>1 DEF PreviewInv, OnePlayer
      <4> QED
        BY <4>2, FS_Singleton
    <3> QED
      BY <3>1, <3>2
  <2> QED
    BY <2>1 DEF PreviewInv, PlaysForSession, PreviewServes
<1>2. PreviewInv /\ [PreviewNext]_previewVars => PreviewInv'
  BY PreviewStep
<1> QED
  BY <1>1, <1>2, PreviewStarts, PTL DEF PreviewSpec

-----------------------------------------------------------------------------
(* The recordings.  Segments are numbered and named in the order in which   *)
(* they begin, and one is written before the next begins.                   *)
BehindTheClock ==
    /\ lastName <= wall
    /\ \A v \in videos : v.id <= begun /\ v.name <= lastName /\ v.modified <= wall
SegmentIsNewest ==
    segment # NoSegment =>
        /\ segment.id = begun /\ segment.name = lastName /\ begun # 0
        /\ \A v \in videos : v.id < begun /\ v.name < lastName
        /\ \A i \in 1..Len(candidates) : candidates[i] < lastName
VideosInOrder ==
    \A u, v \in videos :
        /\ u.id = v.id => u = v
        /\ u.id < v.id => u.name < v.name /\ u.modified <= v.modified

(* The retention task's list is of names that were there, and the videos    *)
(* that are older than one on it and that it has not passed over come       *)
(* before it.                                                               *)
ListIsOfOldNames == \A i \in 1..Len(candidates) : candidates[i] <= lastName
ListInOrder ==
    \A i \in 1..Len(candidates) : \A u, v \in videos :
        (v.name = candidates[i] /\ Older(u, v)) => \E j \in 1..i - 1 : u.name = candidates[j]

VideoInv ==
    /\ VideoTypeOK /\ VideosKept /\ BehindTheClock /\ SegmentIsNewest /\ VideosInOrder
    /\ ListIsOfOldNames /\ ListInOrder

LEMMA VideoConstants ==
    /\ MaxSegments \in Nat /\ MaxWall \in Nat /\ CardBlocks \in Nat /\ FramesPerFile \in Nat
    /\ QuietLimit \in Nat
BY VideoAssumption

LEMMA VideoStarts == MaxWall # 0 /\ VideoInit => VideoInv
<1> SUFFICES ASSUME MaxWall # 0, VideoInit PROVE VideoInv
  OBVIOUS
<1>1. {requested, job, overwritten, newerGone} \subseteq BOOLEAN /\ VideosKept
  BY Zenon DEF VideoInit, VideosKept
<1>2. 0 \in 0 .. MaxWall /\ 1 \in 0 .. MaxWall /\ 0 \in 0 .. MaxSegments /\ 0 \in 0 .. CardBlocks
  BY VideoConstants
<1>3. VideoTypeOK
  BY <1>1, <1>2 DEF VideoInit, VideoTypeOK, Segments, NoSegment
<1> QED
  BY <1>1, <1>3 DEF VideoInit, VideoInv, BehindTheClock, SegmentIsNewest, VideosInOrder,
                    ListIsOfOldNames, ListInOrder

(* The segment that is written joins the videos as the newest of them.      *)
LEMMA SegmentWritten ==
    ASSUME VideoInv, NEW s \in Segments, begun' \in 1 .. MaxSegments, lastName' \in 0 .. MaxWall,
           s.id = begun', s.name = lastName', lastName' <= wall,
           \A v \in videos : v.id < begun' /\ v.name < lastName',
           \A i \in 1..Len(candidates) : candidates[i] < lastName',
           close_segment(s),
           UNCHANGED <<requested, job, wall, others, candidates, skipped, newerGone>>
    PROVE  VideoInv'
<1> DEFINE w == [id |-> s.id, name |-> s.name, modified |-> wall]
           same == {v \in videos : v.name = s.name}
<1>1. /\ \A v \in videos : v \in Videos /\ v.id \in Nat /\ v.name \in Nat /\ v.modified \in Nat
      /\ s.name \in Nat /\ wall \in Nat /\ begun' \in Nat /\ lastName' \in Nat
  BY SMTT(30), VideoConstants DEF VideoInv, VideoTypeOK, Videos, Segments
<1>2. same = {}
  BY <1>1
<1>3. overwritten \in BOOLEAN /\ newerGone \in BOOLEAN /\ ~overwritten /\ ~newerGone
  BY DEF VideoInv, VideoTypeOK, VideosKept
<1>4. overwritten' = FALSE
  BY <1>2, <1>3, Zenon DEF close_segment, write_segment
<1>5. newerGone' = FALSE
  BY <1>3, Zenon
<1>6. w \in Videos /\ w.id = begun' /\ w.name = lastName' /\ w.modified = wall
  BY <1>1 DEF Videos, Segments, VideoInv, VideoTypeOK
<1>7. videos' = videos \/ videos' = videos \cup {w}
  BY <1>2 DEF close_segment, write_segment
<1> HIDE DEF w, same
<1>8. VideoTypeOK'
  <2>1. videos' \subseteq Videos
    BY <1>1, <1>6, <1>7
  <2>2. {requested', job', overwritten', newerGone'} \subseteq BOOLEAN
    BY <1>4, <1>5 DEF VideoInv, VideoTypeOK
  <2>3. segment' \in Segments
    BY VideoConstants DEF close_segment, NoSegment, Segments
  <2> QED
    BY <2>1, <2>2, <2>3, VideoConstants DEF VideoInv, VideoTypeOK
<1>9. VideosKept'
  BY <1>4, <1>5 DEF VideosKept
<1>10. BehindTheClock'
  BY <1>1, <1>6, <1>7 DEF VideoInv, BehindTheClock
<1>11. SegmentIsNewest'
  BY DEF close_segment, SegmentIsNewest
<1>12. VideosInOrder'
  <2> SUFFICES ASSUME NEW u \in videos', NEW v \in videos'
               PROVE  /\ u.id = v.id => u = v
                      /\ u.id < v.id => u.name < v.name /\ u.modified <= v.modified
    BY DEF VideosInOrder
  <2>1. CASE u \in videos /\ v \in videos
    BY <2>1 DEF VideoInv, VideosInOrder
  <2>2. CASE u \in videos /\ v = w
    BY <2>2, <1>1, <1>6 DEF VideoInv, BehindTheClock
  <2>3. CASE u = w /\ v \in videos
    BY <2>3, <1>1, <1>6
  <2>4. CASE u = w /\ v = w
    BY <2>4, <1>1, <1>6
  <2> QED
    BY <1>7, <2>1, <2>2, <2>3, <2>4
<1>13. \A i \in 1..Len(candidates) : candidates[i] \in Nat
  BY VideoConstants DEF VideoInv, VideoTypeOK
<1>14. ListIsOfOldNames'
  BY <1>1, <1>13 DEF ListIsOfOldNames
<1>15. ListInOrder'
  <2> SUFFICES ASSUME NEW i \in 1..Len(candidates), NEW u \in videos', NEW v \in videos',
                      v.name = candidates[i], Older(u, v)
               PROVE  \E j \in 1..i - 1 : u.name = candidates[j]
    BY DEF ListInOrder, Older
  <2>1. v # w
    BY <1>1, <1>6, <1>13
  <2>2. u # w
    BY <2>1, <1>1, <1>6, <1>7 DEF Older
  <2> QED
    BY <1>7, <2>1, <2>2 DEF VideoInv, ListInOrder
<1> QED
  BY <1>8, <1>9, <1>10, <1>11, <1>12, <1>14, <1>15 DEF VideoInv

(* An interval of the recording task with its newest segment.               *)
LEMMA IntervalKeeps ==
    ASSUME VideoInv, NEW s \in Segments, begun' \in 1 .. MaxSegments, lastName' \in 0 .. MaxWall,
           s.id = begun', s.name = lastName', lastName' <= wall,
           \A v \in videos : v.id < begun' /\ v.name < lastName',
           \A i \in 1..Len(candidates) : candidates[i] < lastName',
           RecordsInterval(s)
    PROVE  VideoInv'
<1>1. PICK next : next = advance_recording_segment(s)
  OBVIOUS
<1>2. CASE IsFull(next)
  BY <1>1, <1>2, SegmentWritten DEF RecordsInterval
<1>3. CASE ~IsFull(next)
  <2>1. /\ segment' = next
        /\ UNCHANGED <<videos, overwritten, requested, job, wall, others, candidates, skipped,
                       newerGone>>
    BY <1>1, <1>3 DEF RecordsInterval
  <2>2. next \in Segments /\ next.id = s.id /\ next.name = s.name
    <3>1. PICK quiet : quiet = IF recording_conditions_active THEN s.quiet ELSE s.quiet + 1
      OBVIOUS
    <3>2. quiet \in Nat /\ s.attempted + 1 \in Nat
      BY <3>1 DEF Segments
    <3>3. next = [s EXCEPT !.attempted = s.attempted + 1, !.quiet = quiet]
      BY <1>1, <3>1, Zenon DEF advance_recording_segment
    <3> QED
      BY <3>2, <3>3 DEF Segments
  <2>3. VideoTypeOK' /\ VideosKept'
    BY <2>1, <2>2, VideoConstants DEF VideoInv, VideoTypeOK, VideosKept
  <2>4. \A i \in 1..Len(candidates) : candidates[i] \in Nat
    BY SMTT(30), VideoConstants DEF VideoInv, VideoTypeOK
  <2>5. /\ begun' \in Nat /\ lastName' \in Nat /\ begun' # 0
        /\ \A v \in videos : v.id \in Nat /\ v.name \in Nat
    BY VideoConstants DEF VideoInv, VideoTypeOK, Videos
  <2>6. BehindTheClock' /\ SegmentIsNewest' /\ ListIsOfOldNames'
    BY <2>1, <2>2, <2>4, <2>5
       DEF VideoInv, BehindTheClock, SegmentIsNewest, ListIsOfOldNames
  <2>7. VideosInOrder' /\ ListInOrder'
    BY <2>1 DEF VideoInv, VideosInOrder, ListInOrder, Older
  <2> QED
    BY <2>3, <2>6, <2>7 DEF VideoInv
<1> QED
  BY <1>2, <1>3

(* What a host adds fits, since the card's usage is a number.               *)
LEMMA StoresFit ==
    ASSUME VideoInv, HostStores
    PROVE  others' \in 0 .. CardBlocks
<1>1. IsFiniteSet(videos)
  <2>1. \A u, v \in videos : u.id = v.id => u = v
    BY DEF VideoInv, VideosInOrder
  <2> DEFINE f == [v \in videos |-> v.id]
  <2>2. f \in Injection(videos, 1 .. MaxSegments)
    <3>1. f \in [videos -> 1 .. MaxSegments]
      BY DEF VideoInv, VideoTypeOK, Videos
    <3> QED
      BY <2>1, <3>1 DEF Injection, IsInjective
  <2>3. IsFiniteSet(1 .. MaxSegments)
    BY FS_Interval, VideoConstants
  <2> HIDE DEF f
  <2> QED
    BY <2>2, <2>3, FS_Injection
<1>2. Cardinality(videos) \in Nat
  BY <1>1, FS_CardinalityType
<1> QED
  BY <1>2, VideoConstants DEF HostStores, Used, VideoInv, VideoTypeOK

LEMMA ListIsSequence ==
    ASSUME NEW S, NEW n \in Nat, NEW f \in [1..n -> S]
    PROVE  f \in Seq(S) /\ Len(f) = n
OBVIOUS

LEMMA SequenceParts ==
    ASSUME NEW S, NEW c \in Seq(S), c # <<>>
    PROVE  /\ Head(c) = c[1] /\ 1 \in 1..Len(c) /\ c[1] \in S /\ Tail(c) \in Seq(S)
           /\ Len(c) \in Nat /\ Len(Tail(c)) = Len(c) - 1
           /\ \A i \in 1..Len(Tail(c)) : i + 1 \in 1..Len(c) /\ Tail(c)[i] = c[i + 1]
OBVIOUS

(* A list of all names, oldest first.                                       *)
LEMMA CheckKeeps ==
    ASSUME VideoInv, run_check
    PROVE  VideoInv'
<1> DEFINE names == {v.name : v \in videos}
<1>1. PICK list \in Listings : OldestFirst(list) /\ candidates' = list
  BY DEF run_check
<1>2. /\ skipped' = {}
      /\ UNCHANGED <<requested, job, wall, begun, lastName, segment, videos, others, overwritten,
                     newerGone>>
  BY DEF run_check
<1>3. names \subseteq 0 .. MaxWall
  BY DEF VideoInv, VideoTypeOK, Videos
<1>4. Cardinality(names) \in Nat
  <2>1. IsFiniteSet(0 .. MaxWall)
    BY FS_Interval, VideoConstants
  <2>2. IsFiniteSet(names)
    BY <1>3, <2>1, FS_Subset
  <2> HIDE DEF names
  <2> QED
    BY <2>2, FS_CardinalityType
<1>5. /\ list \in [1 .. Cardinality(names) -> names]
      /\ \A n \in names : \E i \in DOMAIN list : list[i] = n
  BY DEF Listings
<1> HIDE DEF names
<1>6. list \in Seq(0 .. MaxWall) /\ Len(list) = Cardinality(names)
  <2>1. PICK n \in Nat : n = Cardinality(names)
    BY <1>4
  <2>2. list \in [1 .. n -> 0 .. MaxWall]
    BY <1>3, <1>5, <2>1
  <2> QED
    BY <2>1, <2>2, ListIsSequence
<1>7. DOMAIN list = 1..Len(list) /\ \A i \in 1..Len(list) : list[i] \in names
  BY <1>5, <1>6
<1>8. VideoTypeOK' /\ VideosKept'
  BY <1>1, <1>2, <1>6 DEF VideoInv, VideoTypeOK, VideosKept
<1>9. BehindTheClock' /\ VideosInOrder'
  BY <1>2 DEF VideoInv, BehindTheClock, VideosInOrder
<1>10. \A i \in 1..Len(list) : \E v \in videos : list[i] = v.name
  BY <1>7 DEF names
<1>11. SegmentIsNewest' /\ ListIsOfOldNames'
  BY <1>1, <1>2, <1>10 DEF VideoInv, SegmentIsNewest, ListIsOfOldNames, BehindTheClock
<1>12. ListInOrder'
  <2> SUFFICES ASSUME NEW i \in 1..Len(list), NEW u \in videos, NEW v \in videos,
                      v.name = list[i], u.id < v.id, u.modified # v.modified
               PROVE  \E j \in 1..i - 1 : u.name = list[j]
    BY <1>1, <1>2 DEF ListInOrder, Older
  <2>1. PICK j \in 1..Len(list) : list[j] = u.name
    BY <1>5, <1>7 DEF names
  <2>2. i \in Nat /\ j \in Nat
    BY <1>4, <1>6
  <2>3. u.name < v.name /\ u.modified <= v.modified
    BY DEF VideoInv, VideosInOrder
  <2>4. /\ u.name \in Nat /\ v.name \in Nat /\ u.modified \in Nat /\ v.modified \in Nat
    BY VideoConstants DEF VideoInv, VideoTypeOK, Videos
  <2>5. j # i
    BY <2>1, <2>3, <2>4
  <2>6. ~(i < j)
    <3>1. ASSUME i < j PROVE FALSE
      <4>1. v.modified <= u.modified
        BY <1>1, <1>7, <2>1, <3>1 DEF OldestFirst
      <4> QED
        BY <2>3, <2>4, <4>1
    <3> QED
      BY <3>1
  <2>7. j \in 1..i - 1
    BY <2>2, <2>5, <2>6
  <2> QED
    BY <2>1, <2>7
<1> QED
  BY <1>8, <1>9, <1>11, <1>12 DEF VideoInv

(* What is before the rest of the list is removed, or passed over.          *)
LEMMA PruneKeeps ==
    ASSUME VideoInv, PruneNext
    PROVE  VideoInv'
<1> DEFINE name == Head(candidates)
           gone == {v \in videos : v.name = name}
<1>1. candidates \in Seq(0 .. MaxWall) /\ candidates # <<>>
  BY DEF VideoInv, VideoTypeOK, PruneNext
<1>2. /\ name = candidates[1] /\ 1 \in 1..Len(candidates) /\ name \in 0 .. MaxWall
      /\ Tail(candidates) \in Seq(0 .. MaxWall)
      /\ \A i \in 1..Len(Tail(candidates)) :
            i + 1 \in 1..Len(candidates) /\ Tail(candidates)[i] = candidates[i + 1]
  <2>1. /\ Head(candidates) = candidates[1] /\ 1 \in 1..Len(candidates)
        /\ candidates[1] \in 0 .. MaxWall /\ Tail(candidates) \in Seq(0 .. MaxWall)
        /\ \A i \in 1..Len(Tail(candidates)) :
              i + 1 \in 1..Len(candidates) /\ Tail(candidates)[i] = candidates[i + 1]
    BY <1>1, SequenceParts
  <2> QED
    BY <2>1
<1>3. UNCHANGED <<requested, job, wall, begun, lastName, segment, others, overwritten>>
  BY DEF PruneNext
<1>4. \/ /\ videos' = videos \ gone /\ UNCHANGED skipped
         /\ newerGone' = (newerGone \/ \E v \in gone, u \in videos : Older(u, v))
         /\ candidates' = Tail(candidates) \/ candidates' = <<>>
      \/ /\ skipped' = skipped \cup {name} /\ candidates' = Tail(candidates)
         /\ UNCHANGED <<videos, newerGone>>
  BY DEF PruneNext
<1> HIDE DEF name
<1>5. newerGone' = FALSE
  <2>1. newerGone = FALSE
    BY DEF VideoInv, VideoTypeOK, VideosKept
  <2>2. ~\E v \in gone, u \in videos : Older(u, v)
    <3> SUFFICES ASSUME NEW v \in gone, NEW u \in videos, Older(u, v) PROVE FALSE
      OBVIOUS
    <3>1. v.name = candidates[1]
      BY <1>2
    <3>2. \E j \in 1..1 - 1 : u.name = candidates[j]
      BY <3>1, <1>2 DEF VideoInv, ListInOrder
    <3> QED
      BY <3>2
  <2> QED
    BY <1>4, <2>1, <2>2, Zenon
<1>6. /\ videos' \subseteq videos /\ skipped' \subseteq skipped \cup {name}
      /\ candidates' = Tail(candidates) \/ candidates' = <<>>
      /\ skipped \subseteq skipped'
  BY <1>4
<1>7. candidates' \in Seq(0 .. MaxWall)
  <2>1. <<>> \in Seq(0 .. MaxWall)
    OBVIOUS
  <2> QED
    BY <1>2, <1>6, <2>1, Zenon
<1>8. VideoTypeOK'
  <2>1. newerGone' \in BOOLEAN
    BY <1>5
  <2>2. skipped' \subseteq 0 .. MaxWall
    BY <1>2, <1>6 DEF VideoInv, VideoTypeOK
  <2> QED
    BY <1>3, <1>6, <1>7, <2>1, <2>2 DEF VideoInv, VideoTypeOK
<1>9. VideosKept'
  BY <1>3, <1>5 DEF VideoInv, VideosKept
<1>10. BehindTheClock' /\ VideosInOrder'
  BY <1>3, <1>6 DEF VideoInv, BehindTheClock, VideosInOrder
<1>11. \A i \in 1..Len(candidates') :
          i + 1 \in 1..Len(candidates) /\ candidates'[i] = candidates[i + 1] /\ i \in Nat
  BY <1>2, <1>6
<1>12. SegmentIsNewest' /\ ListIsOfOldNames'
  BY <1>3, <1>6, <1>11 DEF VideoInv, SegmentIsNewest, ListIsOfOldNames
<1>13. ListInOrder'
  <2> SUFFICES ASSUME NEW i \in 1..Len(candidates'), NEW u \in videos', NEW v \in videos',
                      v.name = candidates'[i], Older(u, v)'
               PROVE  \E j \in 1..i - 1 : u.name = candidates'[j]
    BY DEF ListInOrder
  <2>1. Older(u, v) /\ u.name \notin skipped'
    BY <1>6 DEF Older
  <2>2. v.name = candidates[i + 1] /\ i + 1 \in 1..Len(candidates) /\ i \in Nat
    BY <1>11
  <2>3. PICK j \in 1..(i + 1) - 1 : u.name = candidates[j]
    BY <1>6, <2>1, <2>2 DEF VideoInv, ListInOrder
  <2>4. j # 1
    BY <1>2, <1>4, <2>1, <2>3
  <2>5. j - 1 \in 1..i - 1 /\ j \in Nat
    BY <2>2, <2>3, <2>4
  <2>6. Len(candidates') \in Nat
    BY <1>7
  <2>7. j - 1 \in 1..Len(candidates')
    BY <2>2, <2>5, <2>6
  <2>8. candidates'[j - 1] = candidates[(j - 1) + 1]
    BY <1>11, <2>7
  <2>9. (j - 1) + 1 = j
    BY <2>5
  <2>10. u.name = candidates'[j - 1]
    BY <2>3, <2>8, <2>9
  <2> QED
    BY <2>5, <2>10
<1> QED
  BY <1>8, <1>9, <1>10, <1>12, <1>13 DEF VideoInv

LEMMA VideoStep ==
    ASSUME ~ClockSteps, ~QuickSegments, VideoInv, [VideoNext]_videoVars
    PROVE  VideoInv'
<1> USE VideoConstants
<1>0. /\ wall \in Nat /\ begun \in Nat /\ lastName \in Nat /\ lastName <= wall
      /\ \A v \in videos : v.id \in Nat /\ v.name \in Nat /\ v.modified \in Nat
      /\ \A i \in 1..Len(candidates) : candidates[i] \in Nat
  BY DEF VideoInv, VideoTypeOK, Videos, BehindTheClock
<1>1. CASE UNCHANGED videoVars
  BY <1>1 DEF VideoInv, VideoTypeOK, VideosKept, BehindTheClock, SegmentIsNewest, VideosInOrder,
              ListIsOfOldNames, ListInOrder, Older, videoVars
<1>2. ASSUME NEW on \in BOOLEAN, handle_recording_command(on) PROVE VideoInv'
  BY <1>2 DEF handle_recording_command, VideoInv, VideoTypeOK, VideosKept, BehindTheClock,
              SegmentIsNewest, VideosInOrder, ListIsOfOldNames, ListInOrder, Older
<1>3. CASE JobChanges
  <2>1. job' \in BOOLEAN
    BY <1>3, Zenon DEF JobChanges
  <2> QED
    BY <1>3, <2>1 DEF JobChanges, VideoInv, VideoTypeOK, VideosKept, BehindTheClock,
                      SegmentIsNewest, VideosInOrder, ListIsOfOldNames, ListInOrder, Older
<1>4. CASE BeginSegment
  <2>1. PICK s : s = [NoSegment EXCEPT !.id = begun + 1, !.name = wall]
    OBVIOUS
  <2>2. s \in Segments /\ s.id = begun + 1 /\ s.name = wall
    <3>1. begun + 1 \in 0 .. MaxSegments /\ wall \in 0 .. MaxWall
      BY <1>0, <1>4 DEF BeginSegment, VideoInv, VideoTypeOK
    <3>2. NoSegment \in Segments
      BY DEF NoSegment, Segments
    <3> QED
      BY <2>1, <3>1, <3>2 DEF Segments
  <2>3. lastName < wall
    BY <1>0, <1>4 DEF BeginSegment
  <2>4. begun' = begun + 1 /\ lastName' = wall /\ begun + 1 \in 1 .. MaxSegments
        /\ wall \in 0 .. MaxWall /\ RecordsInterval(s)
    BY <1>0, <1>4, <2>1 DEF BeginSegment, VideoInv, VideoTypeOK
  <2>5. \A v \in videos : v.id < begun + 1 /\ v.name < wall
    BY <1>0, <2>3 DEF VideoInv, BehindTheClock
  <2>6. \A i \in 1..Len(candidates) : candidates[i] < wall
    BY <1>0, <2>3 DEF VideoInv, ListIsOfOldNames
  <2>7. lastName' <= wall
    BY <1>0, <2>4
  <2> QED
    BY <2>2, <2>4, <2>5, <2>6, <2>7, IntervalKeeps
<1>5. CASE GoOnRecording
  <2>1. /\ segment \in Segments /\ begun' = begun /\ lastName' = lastName
        /\ begun \in 1 .. MaxSegments /\ lastName \in 0 .. MaxWall
    BY <1>5 DEF GoOnRecording, VideoInv, VideoTypeOK, SegmentIsNewest
  <2> QED
    BY <1>0, <1>5, <2>1, IntervalKeeps DEF GoOnRecording, VideoInv, SegmentIsNewest
<1>6. CASE run_check
  BY <1>6, CheckKeeps
<1>7. CASE PruneNext
  BY <1>7, PruneKeeps
<1>8. ASSUME NEW v \in videos, HostRemoves(v) PROVE VideoInv'
  BY <1>8 DEF HostRemoves, VideoInv, VideoTypeOK, VideosKept, BehindTheClock,
              SegmentIsNewest, VideosInOrder, ListIsOfOldNames, ListInOrder, Older
<1>9. CASE HostStores
  <2>1. others' \in 0 .. CardBlocks
    BY <1>9, StoresFit
  <2> QED
    BY <1>9, <2>1 DEF HostStores, VideoInv, VideoTypeOK, VideosKept, BehindTheClock,
                      SegmentIsNewest, VideosInOrder, ListIsOfOldNames, ListInOrder, Older
<1>10. CASE Seconds
  <2>1. wall' = wall + 1 /\ wall' \in 0 .. MaxWall
    BY <1>10 DEF Seconds
  <2>2. BehindTheClock'
    BY <1>0, <1>10, <2>1 DEF Seconds, VideoInv, BehindTheClock
  <2> QED
    BY <1>10, <2>1, <2>2 DEF Seconds, VideoInv, VideoTypeOK, VideosKept,
                      SegmentIsNewest, VideosInOrder, ListIsOfOldNames, ListInOrder, Older
<1>11. CASE Restarts
  <2>1. /\ wall' = wall /\ candidates' = <<>> /\ segment' = NoSegment /\ skipped' = {}
        /\ UNCHANGED <<begun, lastName, videos, others, overwritten, newerGone>>
    BY <1>11 DEF Restarts
  <2>2. requested' \in BOOLEAN /\ job' \in BOOLEAN
    BY <1>11, Zenon DEF Restarts
  <2>3. NoSegment \in Segments
    BY DEF NoSegment, Segments
  <2>4. VideoTypeOK'
    BY <2>1, <2>2, <2>3 DEF VideoInv, VideoTypeOK
  <2> QED
    BY <2>1, <2>4 DEF VideoInv, VideosKept, BehindTheClock,
                      SegmentIsNewest, VideosInOrder, ListIsOfOldNames, ListInOrder
<1> QED
  BY <1>1, <1>2, <1>3, <1>4, <1>5, <1>6, <1>7, <1>8, <1>9, <1>10, <1>11 DEF VideoNext

(* No recording is written over another one, and none goes before an older  *)
(* one that the retention task could remove, for any card, settings and     *)
(* faults, if the wall clock is not set back and a second does not begin    *)
(* two segments (write_segment, evaluate_storage_retention).                *)
THEOREM RecordingsAreKept ==
    ASSUME ~ClockSteps, ~QuickSegments, MaxWall # 0
    PROVE  VideoSpec => []VideosKept
<1>1. VideoInv => VideosKept
  BY DEF VideoInv
<1>2. VideoInit => VideoInv
  BY VideoStarts
<1>3. VideoInv /\ [VideoNext]_videoVars => VideoInv'
  BY VideoStep
<1> QED
  BY <1>1, <1>2, <1>3, PTL DEF VideoSpec

-----------------------------------------------------------------------------
(* The live picture.  One stream at most; one of the current generation is  *)
(* the owner's, and the arbiter waits for the one of the owner before.      *)
OneStream ==
    /\ \A s, t \in streams : s = t
    /\ ended => streams = {}
StreamIsOwners ==
    \A s \in streams :
        /\ s.generation <= generation
        /\ s.generation = generation => s.viewer = liveOwner
ArbiterInStep ==
    /\ arbiter.at # "idle" => liveOwner = arbiter.viewer
    /\ arbiter.at = "idle" => arbiter = Idle
    /\ arbiter.at = "starting" => streams = {} /\ arbiter.viewer # NoViewer
    /\ arbiter.at = "stopping" =>
           /\ arbiter.before # arbiter.viewer
           /\ \A s \in streams : s.viewer = arbiter.before /\ s.generation < generation

Asks(v, action) == [viewer |-> v, action |-> action]
StopQueued(v) == \E i \in 1..Len(control) : control[i] = Asks(v, "stop")

(* The owner that is connected has its stream, or will be stopped: a stream *)
(* that failed has closed its connection, and the next one on the same      *)
(* descriptor asks for a stop first.                                        *)
HasStream(v) ==
    \E s \in streams : s.viewer = v /\ s.generation = generation /\ s.at # "ending"
OwnerIsServed ==
    (arbiter = Idle /\ liveOwner \in watching) => HasStream(liveOwner) \/ StopQueued(liveOwner)

(* Why a viewer that asked is not forgotten: its request is queued and no   *)
(* stop after it; or the arbiter is about to serve it, or to tell it that   *)
(* it lost the stream; or it has the stream; or the stream failed and will  *)
(* close the connection.                                                    *)
StartQueued(v) ==
    \E i \in 1..Len(control) :
        /\ control[i] = Asks(v, "start")
        /\ \A j \in 1..Len(control) : j > i => control[j] # Asks(v, "stop")
AboutToServe(v) == arbiter.at # "idle" /\ arbiter.viewer = v /\ ~StopQueued(v)
AboutToTell(v) == arbiter.at = "stopping" /\ arbiter.before = v /\ arbiter.viewer # NoViewer
IsServed(v) ==
    /\ ~StopQueued(v)
    /\ \E s \in streams :
          s.viewer = v /\ s.generation = generation /\ s.at \in {"top", "sending"}
WillBeClosed(v) == \E s \in streams : s.viewer = v /\ s.at \in {"failed", "closing"}

NobodyForgotten ==
    \A v \in awaited :
        StartQueued(v) \/ AboutToServe(v) \/ AboutToTell(v) \/ IsServed(v) \/ WillBeClosed(v)

LiveInv ==
    /\ LiveTypeOK /\ OneStream /\ StreamIsOwners /\ ArbiterInStep /\ OwnerIsServed
    /\ NobodyForgotten

LEMMA LiveStarts == LiveInit => LiveInv
<1> SUFFICES ASSUME LiveInit PROVE LiveInv
  OBVIOUS
<1>1. ended \in BOOLEAN /\ ~ended
  BY Zenon DEF LiveInit
<1>2. 0 \in 0 .. MaxConnections /\ 0 \in 0 .. MaxGenerations /\ ControlCapacity \in Nat
  BY LiveAssumption
<1>3. control \in Seq(Requests) /\ Len(control) = 0
  BY DEF LiveInit
<1>4. /\ arbiter = Idle
      /\ Idle \in [at : {"idle", "stopping", "starting"}, viewer : Viewers \cup {NoViewer},
                   before : Viewers \cup {NoViewer}]
  BY DEF LiveInit, Idle
<1>5. LiveTypeOK
  BY <1>1, <1>2, <1>3, <1>4 DEF LiveInit, LiveTypeOK
<1>6. arbiter.at = "idle"
  BY <1>4 DEF Idle
<1> QED
  BY <1>1, <1>4, <1>5, <1>6 DEF LiveInit, LiveInv, OneStream, StreamIsOwners, ArbiterInStep,
                                OwnerIsServed, NobodyForgotten

(* What a request adds to the queue.                                        *)
LEMMA QueueGrows ==
    ASSUME control \in Seq(Requests), NEW r \in Requests, control' = Append(control, r), NEW v
    PROVE  /\ StopQueued(v)' <=> StopQueued(v) \/ r = Asks(v, "stop")
           /\ StartQueued(v) /\ r # Asks(v, "stop") => StartQueued(v)'
           /\ r = Asks(v, "start") => StartQueued(v)'
<1>1. /\ Len(control) \in Nat /\ Len(control') = Len(control) + 1
      /\ control'[Len(control) + 1] = r
      /\ \A i \in 1..Len(control) : control'[i] = control[i]
  OBVIOUS
<1>2. /\ \A i \in 1..Len(control') : i \in 1..Len(control) \/ i = Len(control) + 1
      /\ \A i \in 1..Len(control) : i \in 1..Len(control')
      /\ Len(control) + 1 \in 1..Len(control')
  BY <1>1
<1>3. StopQueued(v)' <=> StopQueued(v) \/ r = Asks(v, "stop")
  BY <1>1, <1>2 DEF StopQueued, Asks
<1>4. StartQueued(v) /\ r # Asks(v, "stop") => StartQueued(v)'
  BY <1>1, <1>2 DEF StartQueued, Asks
<1>5. r = Asks(v, "start") => StartQueued(v)'
  <2> SUFFICES ASSUME r = Asks(v, "start") PROVE StartQueued(v)'
    OBVIOUS
  <2>1. \A j \in 1..Len(control') : ~(j > Len(control) + 1)
    BY <1>1
  <2> QED
    BY <1>1, <1>2, <2>1 DEF StartQueued, Asks
<1> QED
  BY <1>3, <1>4, <1>5

(* What the arbiter takes from it.                                          *)
LEMMA QueueShrinks ==
    ASSUME control \in Seq(Requests), control # <<>>, control' = Tail(control), NEW v
    PROVE  /\ StopQueued(v)' => StopQueued(v)
           /\ StopQueued(v) => StopQueued(v)' \/ Head(control) = Asks(v, "stop")
           /\ Head(control) = Asks(v, "stop") => StopQueued(v)
           /\ StartQueued(v) => \/ StartQueued(v)'
                                \/ Head(control) = Asks(v, "start") /\ ~StopQueued(v)'
<1>1. /\ Head(control) = control[1] /\ 1 \in 1..Len(control) /\ Len(control) \in Nat
      /\ Len(control') = Len(control) - 1
      /\ \A i \in 1..Len(control') : i + 1 \in 1..Len(control) /\ control'[i] = control[i + 1]
  BY SequenceParts
<1>2. \A i \in 1..Len(control) :
         i = 1 \/ (i - 1 \in 1..Len(control') /\ control'[i - 1] = control[i])
  <2> SUFFICES ASSUME NEW i \in 1..Len(control), i # 1
               PROVE  i - 1 \in 1..Len(control') /\ control'[i - 1] = control[i]
    OBVIOUS
  <2>1. i - 1 \in 1..Len(control') /\ (i - 1) + 1 = i
    BY <1>1
  <2> QED
    BY <1>1, <2>1
<1>3. StopQueued(v)' => StopQueued(v)
  BY <1>1 DEF StopQueued, Asks
<1>4. StopQueued(v) => StopQueued(v)' \/ Head(control) = Asks(v, "stop")
  BY <1>1, <1>2 DEF StopQueued, Asks
<1>5. Head(control) = Asks(v, "stop") => StopQueued(v)
  BY <1>1 DEF StopQueued
<1>6. ASSUME StartQueued(v), Head(control) # Asks(v, "start") \/ StopQueued(v)'
      PROVE  StartQueued(v)'
  <2>1. PICK i \in 1..Len(control) :
            /\ control[i] = Asks(v, "start")
            /\ \A j \in 1..Len(control) : j > i => control[j] # Asks(v, "stop")
    BY <1>6 DEF StartQueued
  <2>2. i # 1
    <3>1. ASSUME i = 1 PROVE FALSE
      <4>1. PICK k \in 1..Len(control') : control'[k] = Asks(v, "stop")
        BY <1>1, <1>6, <2>1, <3>1 DEF StopQueued, Asks
      <4>2. k + 1 \in 1..Len(control) /\ k + 1 > i /\ control[k + 1] = Asks(v, "stop")
        BY <1>1, <3>1, <4>1
      <4> QED
        BY <2>1, <4>2
    <3> QED
      BY <3>1
  <2>3. i - 1 \in 1..Len(control') /\ control'[i - 1] = Asks(v, "start")
    BY <1>2, <2>1, <2>2
  <2>4. \A j \in 1..Len(control') : j > i - 1 => control'[j] # Asks(v, "stop")
    <3> SUFFICES ASSUME NEW j \in 1..Len(control'), j > i - 1
                 PROVE  control'[j] # Asks(v, "stop")
      OBVIOUS
    <3>1. j + 1 \in 1..Len(control) /\ j + 1 > i /\ control'[j] = control[j + 1]
      BY <1>1
    <3> QED
      BY <2>1, <3>1
  <2> QED
    BY <2>3, <2>4 DEF StartQueued, Asks
<1> QED
  BY <1>3, <1>4, <1>5, <1>6

(* Requests of viewers change the queue and who is connected, not what the  *)
(* arbiter and the stream do.                                               *)
LEMMA RequestKeeps ==
    ASSUME LiveInv, UNCHANGED <<liveOwner, generation, ended, streams, arbiter>>,
           awaited' \subseteq watching',
           \/ control' = control /\ awaited' \subseteq awaited /\ watching' \subseteq watching
           \/ \E r \in Requests :
                 /\ control' = Append(control, r)
                 /\ \A w \in awaited' :
                       (w \in awaited \/ r = Asks(w, "start")) /\ r # Asks(w, "stop")
                 /\ \A w \in watching' : w \in watching \/ r = Asks(w, "stop")
    PROVE  OneStream' /\ StreamIsOwners' /\ ArbiterInStep' /\ OwnerIsServed' /\ NobodyForgotten'
<1>1. OneStream' /\ StreamIsOwners' /\ ArbiterInStep'
  BY DEF LiveInv, OneStream, StreamIsOwners, ArbiterInStep
<1>2. CASE control' = control /\ awaited' \subseteq awaited /\ watching' \subseteq watching
  BY <1>1, <1>2 DEF LiveInv, OwnerIsServed, HasStream, StopQueued, Asks, NobodyForgotten,
              StartQueued, AboutToServe, AboutToTell, IsServed, WillBeClosed
<1>3. ASSUME NEW r \in Requests, control' = Append(control, r),
             \A w \in awaited' : (w \in awaited \/ r = Asks(w, "start")) /\ r # Asks(w, "stop"),
             \A w \in watching' : w \in watching \/ r = Asks(w, "stop")
      PROVE  OwnerIsServed' /\ NobodyForgotten'
  <2>1. control \in Seq(Requests)
    BY DEF LiveInv, LiveTypeOK
  <2>2. \A v : /\ StopQueued(v)' <=> StopQueued(v) \/ r = Asks(v, "stop")
               /\ StartQueued(v) /\ r # Asks(v, "stop") => StartQueued(v)'
               /\ r = Asks(v, "start") => StartQueued(v)'
    BY <1>3, <2>1, QueueGrows
  <2>3. \A v : HasStream(v)' <=> HasStream(v)
    BY DEF HasStream
  <2>4. OwnerIsServed'
    <3>1. StopQueued(liveOwner)' <=> StopQueued(liveOwner) \/ r = Asks(liveOwner, "stop")
      BY <2>2
    <3>2. HasStream(liveOwner)' <=> HasStream(liveOwner)
      BY <2>3
    <3> QED
      BY <1>3, <3>1, <3>2 DEF LiveInv, OwnerIsServed, HasStream, StopQueued
  <2>5. NobodyForgotten'
    <3> SUFFICES ASSUME NEW v \in awaited'
                 PROVE  \/ StartQueued(v)' \/ AboutToServe(v)' \/ AboutToTell(v)'
                        \/ IsServed(v)' \/ WillBeClosed(v)'
      BY DEF NobodyForgotten
    <3>1. CASE r = Asks(v, "start")
      BY <2>2, <3>1
    <3>2. CASE v \in awaited
      BY <1>3, <2>2, <3>2 DEF LiveInv, NobodyForgotten, AboutToServe, AboutToTell, IsServed,
                              WillBeClosed
    <3> QED
      BY <1>3, <3>1, <3>2
  <2> QED
    BY <2>4, <2>5
<1> QED
  BY <1>1, <1>2, <1>3

LEMMA QueueType ==
    ASSUME LiveTypeOK, NEW v \in Viewers, NEW action \in {"start", "stop"},
           Admitted(v, action) \/ Refused
    PROVE  /\ control' \in Seq(Requests) /\ Len(control') <= ControlCapacity
           /\ Asks(v, action) \in Requests
           /\ control' = control \/ control' = Append(control, Asks(v, action))
<1>1. Asks(v, action) \in Requests
  BY DEF Asks, Requests
<1>2. control \in Seq(Requests) /\ Len(control) <= ControlCapacity /\ ControlCapacity \in Nat
  BY LiveAssumption DEF LiveTypeOK
<1>3. CASE Admitted(v, action)
  <2>1. control' = Append(control, Asks(v, action)) /\ Len(control) < ControlCapacity
    BY <1>3 DEF Admitted, Asks
  <2> QED
    BY <1>1, <1>2, <2>1
<1>4. CASE Refused
  BY <1>1, <1>2, <1>4 DEF Refused
<1> QED
  BY <1>3, <1>4

(* A request of v is none of w.                                             *)
LEMMA RequestsDiffer ==
    \A v, w, a, b : Asks(v, a) = Asks(w, b) => v = w /\ a = b
BY DEF Asks

LEMMA ViewerKeeps ==
    ASSUME ~WelcomesLost, LiveInv, NEW v \in Viewers,
           \/ Upgrade(v) \/ AskStart(v) \/ AskStop(v) \/ ReceiveFails(v) \/ ViewerLeaves(v)
    PROVE  LiveInv'
<1>0. LiveTypeOK /\ awaited \subseteq watching /\ watching \subseteq Viewers
  BY DEF LiveInv, LiveTypeOK
<1>1. CASE Upgrade(v)
  <2>1. /\ v \notin watching /\ connections < MaxConnections /\ connections' = connections + 1
        /\ watching' = watching \cup {v} /\ Admitted(v, "stop")
        /\ UNCHANGED <<awaited, liveOwner, generation, ended, streams, arbiter>>
    BY <1>1 DEF Upgrade
  <2>2. /\ control' \in Seq(Requests) /\ Len(control') <= ControlCapacity
        /\ Asks(v, "stop") \in Requests /\ control' = Append(control, Asks(v, "stop"))
    BY <1>0, <2>1, QueueType DEF Admitted, Asks
  <2>3. connections' \in 0 .. MaxConnections
    BY <1>0, <2>1, LiveAssumption DEF LiveTypeOK
  <2>4. LiveTypeOK'
    BY <1>0, <2>1, <2>2, <2>3 DEF LiveTypeOK
  <2>5. \A w \in awaited' : w \in awaited /\ Asks(v, "stop") # Asks(w, "stop")
    BY <1>0, <2>1, RequestsDiffer
  <2>6. OneStream' /\ StreamIsOwners' /\ ArbiterInStep' /\ OwnerIsServed' /\ NobodyForgotten'
    BY <1>0, <2>1, <2>2, <2>5, RequestKeeps
  <2> QED
    BY <2>4, <2>6 DEF LiveInv
<1>2. CASE AskStart(v)
  <2>1. UNCHANGED <<connections, liveOwner, generation, ended, streams, arbiter>>
    BY <1>2 DEF AskStart
  <2>2. CASE Admitted(v, "start") /\ awaited' = awaited \cup {v} /\ UNCHANGED watching
    <3>1. /\ control' \in Seq(Requests) /\ Len(control') <= ControlCapacity
          /\ Asks(v, "start") \in Requests /\ control' = Append(control, Asks(v, "start"))
      BY <1>0, <2>2, QueueType DEF Admitted, Asks
    <3>2. v \in watching
      BY <1>2 DEF AskStart
    <3>3. LiveTypeOK'
      BY <1>0, <2>1, <2>2, <3>1, <3>2 DEF LiveTypeOK
    <3>4. \A w \in awaited' : /\ w \in awaited \/ Asks(v, "start") = Asks(w, "start")
                              /\ Asks(v, "start") # Asks(w, "stop")
      BY <2>2, RequestsDiffer
    <3>5. OneStream' /\ StreamIsOwners' /\ ArbiterInStep' /\ OwnerIsServed' /\ NobodyForgotten'
      BY <1>0, <2>1, <2>2, <3>1, <3>2, <3>4, RequestKeeps
    <3> QED
      BY <3>3, <3>5 DEF LiveInv
  <2>3. CASE Refused /\ Close(v)
    <3>1. control' = control /\ awaited' = awaited \ {v} /\ watching' = watching \ {v}
      BY <2>3 DEF Refused, Close
    <3>2. LiveTypeOK'
      BY <1>0, <2>1, <3>1 DEF LiveTypeOK
    <3>3. OneStream' /\ StreamIsOwners' /\ ArbiterInStep' /\ OwnerIsServed' /\ NobodyForgotten'
      BY <1>0, <2>1, <3>1, RequestKeeps
    <3> QED
      BY <3>2, <3>3 DEF LiveInv
  <2> QED
    BY <1>2, <2>2, <2>3 DEF AskStart
<1>3. CASE AskStop(v) \/ ReceiveFails(v)
  <2>1. /\ UNCHANGED <<connections, liveOwner, generation, ended, streams, arbiter>>
        /\ Admitted(v, "stop") \/ Refused
        /\ awaited' = awaited \ {v} /\ (watching' = watching \/ watching' = watching \ {v})
    BY <1>3 DEF AskStop, ReceiveFails, Close
  <2>2. /\ control' \in Seq(Requests) /\ Len(control') <= ControlCapacity
        /\ Asks(v, "stop") \in Requests
        /\ control' = control \/ control' = Append(control, Asks(v, "stop"))
    BY <1>0, <2>1, QueueType
  <2>3. LiveTypeOK'
    BY <1>0, <2>1, <2>2 DEF LiveTypeOK
  <2>4. \A w \in awaited' : w \in awaited /\ Asks(v, "stop") # Asks(w, "stop")
    BY <2>1, RequestsDiffer
  <2>5. OneStream' /\ StreamIsOwners' /\ ArbiterInStep' /\ OwnerIsServed' /\ NobodyForgotten'
    BY <1>0, <2>1, <2>2, <2>4, RequestKeeps
  <2> QED
    BY <2>3, <2>5 DEF LiveInv
<1>4. CASE ViewerLeaves(v)
  <2>1. /\ UNCHANGED <<connections, control, liveOwner, generation, ended, streams, arbiter>>
        /\ awaited' = awaited \ {v} /\ watching' = watching \ {v}
    BY <1>4 DEF ViewerLeaves, Close
  <2>2. LiveTypeOK'
    BY <1>0, <2>1 DEF LiveTypeOK
  <2>3. OneStream' /\ StreamIsOwners' /\ ArbiterInStep' /\ OwnerIsServed' /\ NobodyForgotten'
    BY <1>0, <2>1, RequestKeeps
  <2> QED
    BY <2>2, <2>3 DEF LiveInv
<1> QED
  BY <1>1, <1>2, <1>3, <1>4

(* The four things that a request makes the arbiter do.                     *)
LEMMA TakesCases ==
    ASSUME LiveTypeOK, ArbiterTakes
    PROVE  \E v \in Viewers, action \in {"start", "stop"} :
              /\ Head(control) = Asks(v, action)
              /\ \/ /\ action = "stop" /\ liveOwner = v
                    /\ liveOwner' = NoViewer /\ generation' = generation + 1
                    /\ arbiter' = [at |-> "stopping", viewer |-> NoViewer, before |-> v]
                 \/ /\ action = "start" /\ liveOwner # v /\ liveOwner # NoViewer
                    /\ liveOwner' = v /\ generation' = generation + 1
                    /\ arbiter' = [at |-> "stopping", viewer |-> v, before |-> liveOwner]
                 \/ /\ action = "start" /\ liveOwner = NoViewer
                    /\ liveOwner' = v /\ generation' = generation
                    /\ arbiter' = [at |-> "starting", viewer |-> v, before |-> NoViewer]
                 \/ /\ action = "start" <=> liveOwner = v
                    /\ liveOwner' = liveOwner /\ generation' = generation /\ arbiter' = Idle
<1>1. control \in Seq(Requests) /\ control # <<>>
  BY DEF LiveTypeOK, ArbiterTakes
<1>2. Head(control) \in Requests
  BY <1>1, SequenceParts
<1>3. PICK v \in Viewers, action \in {"start", "stop"} :
          Head(control) = [viewer |-> v, action |-> action]
  BY <1>2 DEF Requests
<1>4. Head(control).viewer = v /\ Head(control).action = action
  BY <1>3
<1>5. v # NoViewer
  BY LiveAssumption
<1>6. CASE action = "stop" /\ liveOwner = v
  <2>1. StopsOnlyOwn(Head(control)) /\ ~StartsAnew(Head(control))
    BY <1>4, <1>6 DEF StopsOnlyOwn, StartsAnew
  <2>2. /\ liveOwner' = NoViewer /\ generation' = generation + 1
        /\ arbiter' = [at |-> "stopping", viewer |-> NoViewer, before |-> v]
    BY <1>5, <1>6, <2>1 DEF ArbiterTakes
  <2> QED
    BY <1>3, <1>6, <2>2 DEF Asks
<1>7. CASE action = "start" /\ liveOwner # v /\ liveOwner # NoViewer
  <2>1. ~StopsOnlyOwn(Head(control)) /\ StartsAnew(Head(control))
    BY <1>4, <1>7 DEF StopsOnlyOwn, StartsAnew
  <2>2. /\ liveOwner' = v /\ generation' = generation + 1
        /\ arbiter' = [at |-> "stopping", viewer |-> v, before |-> liveOwner]
    BY <1>4, <1>7, <2>1 DEF ArbiterTakes
  <2> QED
    BY <1>3, <1>7, <2>2 DEF Asks
<1>8. CASE action = "start" /\ liveOwner = NoViewer
  <2>1. ~StopsOnlyOwn(Head(control)) /\ StartsAnew(Head(control))
    BY <1>4, <1>5, <1>8 DEF StopsOnlyOwn, StartsAnew
  <2>2. /\ liveOwner' = v /\ generation' = generation
        /\ arbiter' = [Idle EXCEPT !.at = "starting", !.viewer = v]
    BY <1>4, <1>5, <1>8, <2>1 DEF ArbiterTakes
  <2>3. arbiter' = [at |-> "starting", viewer |-> v, before |-> NoViewer]
    BY <2>2 DEF Idle
  <2> QED
    BY <1>3, <1>8, <2>2, <2>3 DEF Asks
<1>9. CASE action = "start" <=> liveOwner = v
  <2>1. CASE action = "stop"
    <3>1. ~StopsOnlyOwn(Head(control)) /\ ~StartsAnew(Head(control))
      BY <1>4, <1>9, <2>1 DEF StopsOnlyOwn, StartsAnew
    <3>2. liveOwner' = liveOwner /\ generation' = generation /\ arbiter' = Idle
      BY <3>1 DEF ArbiterTakes
    <3> QED
      BY <1>3, <1>9, <3>2 DEF Asks
  <2>2. CASE action = "start"
    <3>1. ~StopsOnlyOwn(Head(control)) /\ ~StartsAnew(Head(control))
      BY <1>4, <1>9, <2>2 DEF StopsOnlyOwn, StartsAnew
    <3>2. liveOwner' = liveOwner /\ generation' = generation /\ arbiter' = Idle
      BY <3>1 DEF ArbiterTakes
    <3> QED
      BY <1>3, <1>9, <3>2 DEF Asks
  <2> QED
    BY <2>1, <2>2
<1> QED
  BY <1>6, <1>7, <1>8, <1>9

LEMMA TakesKeeps ==
    ASSUME ~LingersOn, LiveInv, ArbiterTakes
    PROVE  LiveInv'
<1>0. /\ LiveTypeOK /\ control \in Seq(Requests) /\ generation \in Nat
      /\ \A s \in streams : s.generation \in Nat /\ s.viewer \in Viewers /\ s.viewer # NoViewer
      /\ awaited \subseteq watching /\ watching \subseteq Viewers
  BY LiveAssumption DEF LiveInv, LiveTypeOK, Streams
<1>1. /\ arbiter = Idle /\ control # <<>> /\ control' = Tail(control)
      /\ generation < MaxGenerations /\ \A s \in streams : s.generation = generation
      /\ UNCHANGED <<watching, awaited, connections, ended, streams>>
  BY DEF ArbiterTakes
<1>2. PICK v \in Viewers, action \in {"start", "stop"} :
          /\ Head(control) = Asks(v, action)
          /\ \/ /\ action = "stop" /\ liveOwner = v
                /\ liveOwner' = NoViewer /\ generation' = generation + 1
                /\ arbiter' = [at |-> "stopping", viewer |-> NoViewer, before |-> v]
             \/ /\ action = "start" /\ liveOwner # v /\ liveOwner # NoViewer
                /\ liveOwner' = v /\ generation' = generation + 1
                /\ arbiter' = [at |-> "stopping", viewer |-> v, before |-> liveOwner]
             \/ /\ action = "start" /\ liveOwner = NoViewer
                /\ liveOwner' = v /\ generation' = generation
                /\ arbiter' = [at |-> "starting", viewer |-> v, before |-> NoViewer]
             \/ /\ action = "start" <=> liveOwner = v
                /\ liveOwner' = liveOwner /\ generation' = generation /\ arbiter' = Idle
  BY <1>0, TakesCases
<1>3. \A w : /\ StopQueued(w)' => StopQueued(w)
             /\ StopQueued(w) => StopQueued(w)' \/ Asks(v, action) = Asks(w, "stop")
             /\ Asks(v, action) = Asks(w, "stop") => StopQueued(w)
             /\ StartQueued(w) => \/ StartQueued(w)'
                                  \/ Asks(v, action) = Asks(w, "start") /\ ~StopQueued(w)'
  BY <1>0, <1>1, <1>2, QueueShrinks
<1>4. \A s \in streams : s.viewer = liveOwner
  BY <1>1 DEF LiveInv, StreamIsOwners
<1>5. v # NoViewer
  BY LiveAssumption
<1>6. Idle.at = "idle"
  BY DEF Idle
<1>7. LiveTypeOK'
  <2>1. control' \in Seq(Requests) /\ Len(control') = Len(control) - 1 /\ Len(control) \in Nat
    BY <1>0, <1>1, SequenceParts
  <2>2. Len(control') <= ControlCapacity
    BY <2>1, LiveAssumption DEF LiveInv, LiveTypeOK
  <2>3. generation' \in 0 .. MaxGenerations
    BY <1>0, <1>1, <1>2, LiveAssumption
  <2>4. liveOwner' \in Viewers \cup {NoViewer} /\ liveOwner \in Viewers \cup {NoViewer}
    BY <1>2 DEF LiveInv, LiveTypeOK
  <2>5. arbiter' \in [at : {"idle", "stopping", "starting"}, viewer : Viewers \cup {NoViewer},
                      before : Viewers \cup {NoViewer}]
    BY <1>2, <2>4 DEF Idle
  <2> QED
    BY <1>0, <1>1, <2>1, <2>2, <2>3, <2>4, <2>5 DEF LiveTypeOK
<1>8. OneStream'
  BY <1>1 DEF LiveInv, OneStream
(* The owner is stopped.                                                    *)
<1>9. CASE /\ generation' = generation + 1 /\ arbiter'.at = "stopping"
           /\ arbiter'.before = liveOwner /\ liveOwner' = arbiter'.viewer
           /\ liveOwner' # liveOwner
           /\ \/ action = "stop" /\ liveOwner = v /\ arbiter'.viewer = NoViewer
              \/ action = "start" /\ liveOwner # v /\ arbiter'.viewer = v
  <2>1. StreamIsOwners' /\ ArbiterInStep' /\ OwnerIsServed'
    BY <1>0, <1>1, <1>4, <1>6, <1>9 DEF StreamIsOwners, ArbiterInStep, OwnerIsServed
  <2>2. NobodyForgotten'
    <3> SUFFICES ASSUME NEW w \in awaited
                 PROVE  \/ StartQueued(w)' \/ AboutToServe(w)' \/ AboutToTell(w)'
                        \/ IsServed(w)' \/ WillBeClosed(w)'
      BY <1>1 DEF NobodyForgotten
    <3>1. CASE StartQueued(w)
      BY <1>3, <1>9, <3>1, RequestsDiffer DEF AboutToServe
    <3>2. CASE IsServed(w)
      <4>1. w = liveOwner /\ ~StopQueued(w)
        BY <1>4, <3>2 DEF IsServed
      <4> QED
        BY <1>3, <1>5, <1>9, <4>1 DEF AboutToTell
    <3>3. CASE WillBeClosed(w)
      BY <1>1, <3>3 DEF WillBeClosed
    <3>4. ~AboutToServe(w) /\ ~AboutToTell(w)
      BY <1>1, <1>6 DEF AboutToServe, AboutToTell
    <3> QED
      BY <3>1, <3>2, <3>3, <3>4 DEF LiveInv, NobodyForgotten
  <2> QED
    BY <1>7, <1>8, <2>1, <2>2 DEF LiveInv
(* There was none.                                                          *)
<1>10. CASE /\ action = "start" /\ liveOwner = NoViewer /\ liveOwner' = v
            /\ generation' = generation /\ arbiter'.at = "starting" /\ arbiter'.viewer = v
  <2>1. streams = {}
    BY <1>0, <1>4, <1>10
  <2>2. StreamIsOwners' /\ ArbiterInStep' /\ OwnerIsServed'
    BY <1>1, <1>5, <1>6, <1>10, <2>1 DEF StreamIsOwners, ArbiterInStep, OwnerIsServed
  <2>3. NobodyForgotten'
    <3> SUFFICES ASSUME NEW w \in awaited PROVE StartQueued(w)' \/ AboutToServe(w)'
      BY <1>1 DEF NobodyForgotten
    <3>1. StartQueued(w)
      BY <1>1, <1>6, <2>1 DEF LiveInv, NobodyForgotten, AboutToServe, AboutToTell, IsServed,
                              WillBeClosed
    <3> QED
      BY <1>3, <1>10, <3>1, RequestsDiffer DEF AboutToServe
  <2> QED
    BY <1>7, <1>8, <2>2, <2>3 DEF LiveInv
(* Nothing is to be done.                                                   *)
<1>11. CASE /\ action = "start" <=> liveOwner = v
            /\ liveOwner' = liveOwner /\ generation' = generation /\ arbiter' = Idle
  <2>1. StreamIsOwners' /\ ArbiterInStep'
    BY <1>1, <1>11 DEF LiveInv, StreamIsOwners, ArbiterInStep
  <2>2. \A w : HasStream(w)' <=> HasStream(w)
    BY <1>1, <1>11 DEF HasStream
  <2>3. Asks(v, action) # Asks(liveOwner, "stop")
    BY <1>11, RequestsDiffer
  <2>4. OwnerIsServed'
    <3> SUFFICES ASSUME NEW w \in watching, w = liveOwner PROVE HasStream(w)' \/ StopQueued(w)'
      BY <1>1, <1>11 DEF OwnerIsServed, HasStream, StopQueued
    <3>1. HasStream(w) \/ StopQueued(w)
      BY <1>1 DEF LiveInv, OwnerIsServed
    <3> QED
      BY <1>3, <2>2, <2>3, <3>1
  <2>5. NobodyForgotten'
    <3> SUFFICES ASSUME NEW w \in awaited
                 PROVE  StartQueued(w)' \/ IsServed(w)' \/ WillBeClosed(w)'
      BY <1>1 DEF NobodyForgotten
    <3>1. CASE WillBeClosed(w)
      BY <1>1, <3>1 DEF WillBeClosed
    <3>2. CASE IsServed(w)
      BY <1>1, <1>3, <1>11, <3>2 DEF IsServed
    <3>3. CASE StartQueued(w) /\ ~StartQueued(w)'
      <4>1. w = v /\ action = "start" /\ ~StopQueued(w)'
        BY <1>3, <3>3, RequestsDiffer
      <4>2. w = liveOwner /\ w \in watching /\ ~StopQueued(w)
        BY <1>0, <1>3, <1>11, <4>1, RequestsDiffer
      <4>3. PICK s \in streams : s.viewer = w /\ s.generation = generation /\ s.at # "ending"
        BY <1>1, <4>2 DEF LiveInv, OwnerIsServed, HasStream
      <4>4. s.at \in {"top", "sending", "failed", "closing"}
        BY <1>0, <4>3 DEF LiveTypeOK, Streams
      <4> QED
        BY <1>1, <1>11, <4>1, <4>3, <4>4 DEF IsServed, WillBeClosed
    <3>4. ~AboutToServe(w) /\ ~AboutToTell(w)
      BY <1>1, <1>6 DEF AboutToServe, AboutToTell
    <3> QED
      BY <3>1, <3>2, <3>3, <3>4 DEF LiveInv, NobodyForgotten
  <2> QED
    BY <1>7, <1>8, <2>1, <2>4, <2>5 DEF LiveInv
<1> QED
  BY <1>2, <1>5, <1>9, <1>10, <1>11

(* What the arbiter does once it has waited, or has given up waiting.       *)
LEMMA ArbiterKeeps ==
    ASSUME "create" \notin LiveFaults, LiveInv,
           ArbiterStopped \/ ArbiterGivesUp \/ start_live_stream
    PROVE  LiveInv'
<1>0. /\ LiveTypeOK /\ generation \in Nat /\ awaited \subseteq watching
      /\ \A s \in streams : s.generation \in Nat /\ s.viewer \in Viewers
      /\ arbiter \in [at : {"idle", "stopping", "starting"}, viewer : Viewers \cup {NoViewer},
                      before : Viewers \cup {NoViewer}]
  BY LiveAssumption DEF LiveInv, LiveTypeOK, Streams
<1>1. /\ Idle.at = "idle"
      /\ Idle \in [at : {"idle", "stopping", "starting"}, viewer : Viewers \cup {NoViewer},
                   before : Viewers \cup {NoViewer}]
  BY DEF Idle
<1>2. CASE ArbiterStopped
  <2>1. /\ arbiter.at = "stopping" /\ ended /\ ended' = FALSE
        /\ UNCHANGED <<watching, connections, control, liveOwner, generation, streams>>
    BY <1>2 DEF ArbiterStopped, StreamHasEnded
  <2>2. streams = {} /\ liveOwner = arbiter.viewer
    BY <2>1 DEF LiveInv, OneStream, ArbiterInStep
  <2>3. ended' \in BOOLEAN /\ ~ended'
    BY <2>1
  <2>4. \A w : (StartQueued(w)' <=> StartQueued(w)) /\ (StopQueued(w)' <=> StopQueued(w))
    BY <2>1 DEF StartQueued, StopQueued, Asks
  <2>5. \A w \in awaited : StartQueued(w) \/ AboutToServe(w) \/ AboutToTell(w)
    BY <2>2 DEF LiveInv, NobodyForgotten, IsServed, WillBeClosed
  <2>6. CASE arbiter.viewer = NoViewer
    <3>1. arbiter' = Idle /\ awaited' = awaited
      BY <1>2, <2>6 DEF ArbiterStopped
    <3>2. LiveTypeOK'
      BY <1>0, <1>1, <2>1, <2>3, <3>1 DEF LiveTypeOK
    <3>3. OneStream' /\ StreamIsOwners' /\ ArbiterInStep'
      BY <1>1, <2>1, <2>2, <3>1 DEF OneStream, StreamIsOwners, ArbiterInStep
    <3>4. OwnerIsServed'
      BY <1>0, <2>1, <2>2, <2>6, LiveAssumption DEF OwnerIsServed, LiveTypeOK
    <3>5. NobodyForgotten'
      <4> SUFFICES ASSUME NEW w \in awaited PROVE StartQueued(w)'
        BY <3>1 DEF NobodyForgotten
      <4>1. w # NoViewer
        BY <1>0, LiveAssumption DEF LiveTypeOK
      <4> QED
        BY <2>4, <2>5, <2>6, <4>1 DEF AboutToServe, AboutToTell
    <3> QED
      BY <3>2, <3>3, <3>4, <3>5 DEF LiveInv
  <2>7. CASE arbiter.viewer # NoViewer
    <3>1. arbiter' = [arbiter EXCEPT !.at = "starting"] /\ awaited' = awaited \ {arbiter.before}
      BY <1>2, <2>7 DEF ArbiterStopped
    <3>2. /\ arbiter' \in [at : {"idle", "stopping", "starting"},
                           viewer : Viewers \cup {NoViewer}, before : Viewers \cup {NoViewer}]
          /\ arbiter'.at = "starting" /\ arbiter'.viewer = arbiter.viewer
      BY <1>0, <3>1
    <3>3. LiveTypeOK'
      BY <1>0, <2>1, <2>3, <3>1, <3>2 DEF LiveTypeOK
    <3>4. OneStream' /\ StreamIsOwners' /\ ArbiterInStep' /\ OwnerIsServed'
      BY <1>1, <2>1, <2>2, <2>7, <3>2 DEF OneStream, StreamIsOwners, ArbiterInStep, OwnerIsServed
    <3>5. NobodyForgotten'
      <4> SUFFICES ASSUME NEW w \in awaited, w # arbiter.before
                   PROVE  StartQueued(w)' \/ AboutToServe(w)'
        BY <3>1 DEF NobodyForgotten
      <4> QED
        BY <2>4, <2>5, <3>2 DEF AboutToServe, AboutToTell
    <3> QED
      BY <3>3, <3>4, <3>5 DEF LiveInv
  <2> QED
    BY <2>6, <2>7
<1>3. CASE ArbiterGivesUp
  <2>1. /\ arbiter.at = "stopping" /\ ~ended /\ arbiter' = Idle
        /\ UNCHANGED <<connections, control, generation, ended, streams>>
    BY <1>3 DEF ArbiterGivesUp
  <2>2. /\ liveOwner = arbiter.viewer
        /\ \A s \in streams : s.viewer = arbiter.before /\ s.generation < generation
    BY <2>1 DEF LiveInv, ArbiterInStep
  <2>3. /\ liveOwner' = NoViewer /\ awaited' \subseteq awaited /\ watching' \subseteq watching
        /\ arbiter.viewer # NoViewer => awaited' = awaited \ {arbiter.viewer, arbiter.before}
        /\ awaited' \subseteq watching'
    BY <1>0, <1>3, <2>2 DEF ArbiterGivesUp
  <2>4. LiveTypeOK'
    BY <1>0, <1>1, <2>1, <2>3 DEF LiveTypeOK
  <2>5. OneStream' /\ StreamIsOwners' /\ ArbiterInStep' /\ OwnerIsServed'
    BY <1>0, <1>1, <2>1, <2>2, <2>3, <2>4, LiveAssumption
       DEF LiveInv, OneStream, StreamIsOwners, ArbiterInStep, OwnerIsServed, LiveTypeOK
  <2>6. NobodyForgotten'
    <3> SUFFICES ASSUME NEW w \in awaited' PROVE StartQueued(w)' \/ WillBeClosed(w)'
      BY DEF NobodyForgotten
    <3>1. w \in awaited /\ w # NoViewer
      BY <1>0, <2>3, LiveAssumption DEF LiveTypeOK
    <3>2. ~AboutToServe(w) /\ ~AboutToTell(w)
      BY <2>3, <3>1 DEF AboutToServe, AboutToTell
    <3>3. ~IsServed(w)
      BY <1>0, <2>2 DEF IsServed
    <3>4. StartQueued(w) \/ WillBeClosed(w)
      BY <3>1, <3>2, <3>3 DEF LiveInv, NobodyForgotten
    <3> QED
      BY <2>1, <3>4 DEF StartQueued, WillBeClosed, Asks
  <2> QED
    BY <2>4, <2>5, <2>6 DEF LiveInv
<1>4. CASE start_live_stream
  <2>1. PICK s : s = [viewer |-> arbiter.viewer, generation |-> generation + 1, at |-> "top"]
    OBVIOUS
  <2>2. /\ arbiter.at = "starting" /\ generation < MaxGenerations /\ arbiter' = Idle
        /\ ended' = FALSE /\ generation' = generation + 1 /\ streams' = streams \cup {s}
        /\ UNCHANGED <<liveOwner, watching, awaited, connections, control>>
    BY <1>4, <2>1 DEF start_live_stream
  <2>3. streams = {} /\ arbiter.viewer # NoViewer /\ liveOwner = arbiter.viewer
    BY <2>2 DEF LiveInv, ArbiterInStep
  <2>4. arbiter.viewer \in Viewers /\ generation + 1 \in 1 .. MaxGenerations
    BY <1>0, <2>2, <2>3, LiveAssumption
  <2>5. s \in Streams /\ s.viewer = liveOwner /\ s.generation = generation' /\ s.at = "top"
    BY <2>1, <2>2, <2>3, <2>4 DEF Streams
  <2>6. streams' = {s}
    BY <2>2, <2>3
  <2>7. LiveTypeOK'
    <3>1. generation' \in 0 .. MaxGenerations
      BY <2>2, <2>4
    <3>2. ended' \in BOOLEAN
      BY <2>2
    <3> QED
      BY <1>0, <1>1, <2>2, <2>5, <2>6, <3>1, <3>2 DEF LiveTypeOK
  <2>8. OneStream' /\ StreamIsOwners' /\ ArbiterInStep' /\ OwnerIsServed'
    BY <1>0, <1>1, <2>2, <2>5, <2>6
       DEF OneStream, StreamIsOwners, ArbiterInStep, OwnerIsServed, HasStream
  <2>9. NobodyForgotten'
    <3> SUFFICES ASSUME NEW w \in awaited PROVE StartQueued(w)' \/ IsServed(w)'
      BY <2>2 DEF NobodyForgotten
    <3>1. StartQueued(w) \/ AboutToServe(w)
      BY <2>2, <2>3 DEF LiveInv, NobodyForgotten, AboutToTell, IsServed, WillBeClosed
    <3>2. CASE StartQueued(w)
      BY <2>2, <3>2 DEF StartQueued, Asks
    <3>3. CASE AboutToServe(w)
      BY <2>2, <2>3, <2>5, <2>6, <3>3 DEF AboutToServe, IsServed, StopQueued, Asks
    <3> QED
      BY <3>1, <3>2, <3>3
  <2> QED
    BY <2>7, <2>8, <2>9 DEF LiveInv
<1> QED
  BY <1>2, <1>3, <1>4

(* A stream that moves on, and does not close a connection.                 *)
LEMMA StreamMoves ==
    ASSUME LiveInv, NEW s \in streams, NEW at \in {"top", "sending", "failed", "closing", "ending"},
           Moves(s, at), s.at \notin {"closing", "ending"},
           at = "ending" => s.generation # generation /\ s.at \notin {"failed"},
           s.at = "failed" => at = "closing",
           UNCHANGED <<watching, awaited, connections, liveOwner, generation, ended, arbiter>>,
           \/ control' = control
           \/ /\ at = "closing" /\ Len(control) < ControlCapacity
              /\ control' = Append(control, Asks(s.viewer, "stop"))
    PROVE  LiveInv'
<1>0. /\ LiveTypeOK /\ generation \in Nat /\ s \in Streams /\ control \in Seq(Requests)
      /\ \A t \in streams : t = s
  BY LiveAssumption DEF LiveInv, LiveTypeOK, OneStream
<1>1. PICK t : t = [s EXCEPT !.at = at]
  OBVIOUS
<1>2. /\ t \in Streams /\ t.viewer = s.viewer /\ t.generation = s.generation /\ t.at = at
      /\ s.viewer \in Viewers
  BY <1>0, <1>1 DEF Streams
<1>3. streams' = {t} /\ streams = {s}
  BY <1>0, <1>1 DEF Moves
<1>4. Asks(s.viewer, "stop") \in Requests
  BY <1>2 DEF Asks, Requests
<1>5. LiveTypeOK'
  <2>1. control' \in Seq(Requests) /\ Len(control') <= ControlCapacity
    BY <1>0, <1>4, LiveAssumption DEF LiveTypeOK
  <2> QED
    BY <1>0, <1>2, <1>3, <2>1 DEF LiveTypeOK
<1>6. OneStream' /\ StreamIsOwners' /\ ArbiterInStep'
  BY <1>2, <1>3 DEF LiveInv, OneStream, StreamIsOwners, ArbiterInStep
<1>7. \A w : /\ StopQueued(w) => StopQueued(w)'
             /\ StopQueued(w)' => StopQueued(w) \/ (at = "closing" /\ w = s.viewer)
             /\ StartQueued(w) => StartQueued(w)' \/ (at = "closing" /\ w = s.viewer)
  <2>1. CASE control' = control
    BY <2>1 DEF StopQueued, StartQueued, Asks
  <2>2. CASE at = "closing" /\ control' = Append(control, Asks(s.viewer, "stop"))
    <3> SUFFICES ASSUME NEW w
                 PROVE  /\ StopQueued(w) => StopQueued(w)'
                        /\ StopQueued(w)' => StopQueued(w) \/ w = s.viewer
                        /\ StartQueued(w) => StartQueued(w)' \/ w = s.viewer
      BY <2>2
    <3>1. /\ StopQueued(w)' <=> StopQueued(w) \/ Asks(s.viewer, "stop") = Asks(w, "stop")
          /\ StartQueued(w) /\ Asks(s.viewer, "stop") # Asks(w, "stop") => StartQueued(w)'
      BY <1>0, <1>4, <2>2, QueueGrows
    <3> QED
      BY <3>1, RequestsDiffer
  <2> QED
    BY <2>1, <2>2
<1>8. OwnerIsServed'
  <2> SUFFICES ASSUME NEW w \in watching, w = liveOwner, arbiter = Idle
               PROVE  HasStream(w)' \/ StopQueued(w)'
    BY DEF OwnerIsServed, HasStream, StopQueued
  <2>1. HasStream(w) \/ StopQueued(w)
    BY DEF LiveInv, OwnerIsServed
  <2> QED
    BY <1>2, <1>3, <1>7, <2>1 DEF HasStream
<1>9. NobodyForgotten'
  <2> SUFFICES ASSUME NEW w \in awaited
               PROVE  \/ StartQueued(w)' \/ AboutToServe(w)' \/ AboutToTell(w)'
                      \/ IsServed(w)' \/ WillBeClosed(w)'
    BY DEF NobodyForgotten
  <2>1. CASE at = "closing" /\ w = s.viewer
    BY <1>2, <1>3, <2>1 DEF WillBeClosed
  <2>2. CASE ~(at = "closing" /\ w = s.viewer)
    <3>1. (StopQueued(w)' => StopQueued(w)) /\ (StartQueued(w) => StartQueued(w)')
      BY <1>7, <2>2
    <3>2. CASE StartQueued(w) \/ AboutToServe(w) \/ AboutToTell(w)
      BY <3>1, <3>2 DEF AboutToServe, AboutToTell
    <3>3. CASE IsServed(w)
      BY <1>2, <1>3, <2>2, <3>1, <3>3 DEF IsServed, WillBeClosed
    <3>4. CASE WillBeClosed(w)
      BY <1>3, <2>2, <3>4 DEF WillBeClosed
    <3> QED
      BY <3>2, <3>3, <3>4 DEF LiveInv, NobodyForgotten
  <2> QED
    BY <2>1, <2>2
<1> QED
  BY <1>5, <1>6, <1>8, <1>9 DEF LiveInv

(* A stream that closes its connection, and one that is over.               *)
LEMMA StreamStops ==
    ASSUME LiveInv, NEW s \in streams, StreamCloses(s) \/ StreamEnds(s)
    PROVE  LiveInv'
<1>0. /\ LiveTypeOK /\ generation \in Nat /\ s \in Streams /\ streams = {s}
  BY LiveAssumption DEF LiveInv, LiveTypeOK, OneStream
<1>1. UNCHANGED <<connections, control, liveOwner, generation, arbiter>>
  BY DEF StreamCloses, StreamEnds
<1>2. \A w : (StartQueued(w)' <=> StartQueued(w)) /\ (StopQueued(w)' <=> StopQueued(w))
  BY <1>1 DEF StartQueued, StopQueued, Asks
<1>3. \A w : (AboutToServe(w) => AboutToServe(w)') /\ (AboutToTell(w) => AboutToTell(w)')
  BY <1>1, <1>2 DEF AboutToServe, AboutToTell
<1>4. CASE StreamCloses(s)
  <2>1. PICK t : t = [s EXCEPT !.at = "ending"]
    OBVIOUS
  <2>2. t \in Streams /\ t.viewer = s.viewer /\ t.generation = s.generation /\ t.at = "ending"
    BY <1>0, <2>1 DEF Streams
  <2>3. /\ s.at = "closing" /\ streams' = {t} /\ ended' = ended
        /\ watching' = watching \ {s.viewer} /\ awaited' = awaited \ {s.viewer}
    BY <1>0, <1>4, <2>1 DEF StreamCloses, Moves, Close
  <2>4. LiveTypeOK'
    BY <1>0, <1>1, <2>2, <2>3 DEF LiveTypeOK
  <2>5. OneStream' /\ StreamIsOwners' /\ ArbiterInStep'
    BY <1>0, <1>1, <2>2, <2>3 DEF LiveInv, OneStream, StreamIsOwners, ArbiterInStep
  <2>6. OwnerIsServed'
    <3> SUFFICES ASSUME NEW w \in watching, w # s.viewer, w = liveOwner, arbiter = Idle
                 PROVE  StopQueued(w)'
      BY <1>1, <2>3 DEF OwnerIsServed, StopQueued
    <3>1. HasStream(w) \/ StopQueued(w)
      BY DEF LiveInv, OwnerIsServed
    <3> QED
      BY <1>0, <1>2, <3>1 DEF HasStream
  <2>7. NobodyForgotten'
    <3> SUFFICES ASSUME NEW w \in awaited, w # s.viewer
                 PROVE  StartQueued(w)' \/ AboutToServe(w)' \/ AboutToTell(w)'
      BY <2>3 DEF NobodyForgotten
    <3>1. ~IsServed(w) /\ ~WillBeClosed(w)
      BY <1>0 DEF IsServed, WillBeClosed
    <3> QED
      BY <1>2, <1>3, <3>1 DEF LiveInv, NobodyForgotten
  <2> QED
    BY <2>4, <2>5, <2>6, <2>7 DEF LiveInv
<1>5. CASE StreamEnds(s)
  <2>1. s.at = "ending" /\ streams' = {} /\ UNCHANGED <<watching, awaited>>
    BY <1>0, <1>5 DEF StreamEnds
  <2>2. ended' \in BOOLEAN
    BY <1>5 DEF StreamEnds
  <2>3. LiveTypeOK'
    BY <1>0, <1>1, <2>1, <2>2 DEF LiveTypeOK
  <2>4. OneStream' /\ StreamIsOwners' /\ ArbiterInStep'
    BY <1>1, <2>1 DEF LiveInv, OneStream, StreamIsOwners, ArbiterInStep
  <2>5. OwnerIsServed'
    <3> SUFFICES ASSUME NEW w \in watching, w = liveOwner, arbiter = Idle
                 PROVE  StopQueued(w)'
      BY <1>1, <2>1 DEF OwnerIsServed, StopQueued
    <3>1. HasStream(w) \/ StopQueued(w)
      BY DEF LiveInv, OwnerIsServed
    <3> QED
      BY <1>0, <1>2, <2>1, <3>1 DEF HasStream
  <2>6. NobodyForgotten'
    <3> SUFFICES ASSUME NEW w \in awaited
                 PROVE  StartQueued(w)' \/ AboutToServe(w)' \/ AboutToTell(w)'
      BY <2>1 DEF NobodyForgotten
    <3>1. ~IsServed(w) /\ ~WillBeClosed(w)
      BY <1>0, <2>1 DEF IsServed, WillBeClosed
    <3> QED
      BY <1>2, <1>3, <3>1 DEF LiveInv, NobodyForgotten
  <2> QED
    BY <2>3, <2>4, <2>5, <2>6 DEF LiveInv
<1> QED
  BY <1>4, <1>5

LEMMA LiveStep ==
    ASSUME ~LingersOn, ~WelcomesLost, "create" \notin LiveFaults
    PROVE  LiveInv /\ [LiveNext]_liveVars => LiveInv'
<1> SUFFICES ASSUME LiveInv, [LiveNext]_liveVars PROVE LiveInv'
  OBVIOUS
<1>1. ASSUME NEW v \in Viewers,
             Upgrade(v) \/ AskStart(v) \/ AskStop(v) \/ ReceiveFails(v) \/ ViewerLeaves(v)
      PROVE  LiveInv'
  BY <1>1, ViewerKeeps
<1>2. ASSUME NEW s \in streams, StreamTop(s) \/ StreamSends(s) \/ StreamGivesUp(s)
      PROVE  LiveInv'
  <2>1. CASE StreamTop(s)
    <3>1. PICK at : at = IF s.generation # generation THEN "ending"
                         ELSE IF s.viewer \in watching THEN "sending" ELSE "failed"
      OBVIOUS
    <3>2. /\ at \in {"top", "sending", "failed", "closing", "ending"} /\ s.at = "top"
          /\ at = "ending" => s.generation # generation
      BY <2>1, <3>1 DEF StreamTop
    <3>3. /\ Moves(s, at)
          /\ UNCHANGED <<watching, awaited, connections, control, liveOwner, generation, ended,
                         arbiter>>
      BY <2>1, <3>1 DEF StreamTop
    <3> QED
      BY <3>2, <3>3, StreamMoves
  <2>2. CASE StreamSends(s)
    <3>1. /\ s.at = "sending" /\ \E at \in {"top", "failed"} : Moves(s, at)
          /\ UNCHANGED <<watching, awaited, connections, control, liveOwner, generation, ended,
                         arbiter>>
      BY <2>2 DEF StreamSends
    <3> QED
      BY <3>1, StreamMoves
  <2>3. CASE StreamGivesUp(s)
    <3>1. /\ s.at = "failed" /\ Moves(s, "closing")
          /\ UNCHANGED <<watching, awaited, connections, liveOwner, generation, ended, arbiter>>
          /\ \/ control' = control
             \/ /\ Len(control) < ControlCapacity
                /\ control' = Append(control, Asks(s.viewer, "stop"))
      BY <2>3 DEF StreamGivesUp, Admitted, Refused, Asks
    <3> QED
      BY <3>1, StreamMoves
  <2> QED
    BY <1>2, <2>1, <2>2, <2>3
<1>3. ASSUME NEW s \in streams, StreamCloses(s) \/ StreamEnds(s)
      PROVE  LiveInv'
  BY <1>3, StreamStops
<1>4. CASE UNCHANGED liveVars
  BY <1>4 DEF liveVars, LiveInv, LiveTypeOK, OneStream, StreamIsOwners, ArbiterInStep,
              OwnerIsServed, HasStream, StopQueued, NobodyForgotten, StartQueued, AboutToServe,
              AboutToTell, IsServed, WillBeClosed, Asks
<1> QED
  BY <1>1, <1>2, <1>3, <1>4, TakesKeeps, ArbiterKeeps DEF LiveNext

(* The picture reaches who asked last, for any viewers, queue and use of    *)
(* descriptors, although streams fail and close connections at any time, if *)
(* a stream has ended by the next request, a new connection's stop finds    *)
(* room in the queue and the stream task can be created                     *)
(* (live_arbiter_task, live_stream_task).                                   *)
THEOREM LivePictureIsServed ==
    ASSUME ~LingersOn, ~WelcomesLost, "create" \notin LiveFaults
    PROVE  LiveSpec => []LiveServes
<1>1. LiveInv => LiveServes
  <2> SUFFICES ASSUME LiveInv PROVE LiveServes
    OBVIOUS
  <2>1. Cardinality(streams) <= 1
    <3>1. CASE streams = {}
      BY <3>1, FS_EmptySet
    <3>2. CASE streams # {}
      <4>1. PICK s \in streams : TRUE
        BY <3>2
      <4>2. streams = {s}
        BY <4>1 DEF LiveInv, OneStream
      <4> QED
        BY <4>2, FS_Singleton
    <3> QED
      BY <3>1, <3>2
  <2>2. ended => streams = {}
    BY DEF LiveInv, OneStream
  <2>3. ASSUME control = <<>>, arbiter = Idle, \A s \in streams : s.at \in {"top", "sending"},
               NEW v \in awaited
        PROVE  \E s \in streams : s.viewer = v /\ s.generation = generation
    <3>1. ~StartQueued(v)
      BY <2>3 DEF StartQueued
    <3>2. ~AboutToServe(v) /\ ~AboutToTell(v)
      BY <2>3 DEF AboutToServe, AboutToTell, Idle
    <3>3. ~WillBeClosed(v)
      BY <2>3 DEF WillBeClosed
    <3>4. IsServed(v)
      BY <3>1, <3>2, <3>3 DEF LiveInv, NobodyForgotten
    <3> QED
      BY <3>4 DEF IsServed
  <2> QED
    BY <2>1, <2>2, <2>3 DEF LiveServes
<1>2. LiveInv /\ [LiveNext]_liveVars => LiveInv'
  BY LiveStep
<1> QED
  BY <1>1, <1>2, LiveStarts, PTL DEF LiveSpec

-----------------------------------------------------------------------------
(* The three together keep the promise of the pictures, under the           *)
(* assumptions of the three theorems (camera_recorder, http_server_adapter).*)
THEOREM MediaIsServed ==
    ASSUME ~ClockSteps, ~QuickSegments, MaxWall # 0, ~LingersOn, ~WelcomesLost,
           "create" \notin LiveFaults, ~ArbiterRaces
    PROVE  MediaSpec => []MediaServes
<1>1. VideoSpec => []VideosKept
  BY RecordingsAreKept
<1>2. LiveSpec => []LiveServes
  BY LivePictureIsServed
<1>3. PreviewSpec => []PreviewServes
  BY PreviewIsServed
<1>4. VideosKept /\ LiveServes /\ PreviewServes => MediaServes
  BY DEF MediaServes
<1> QED
  BY <1>1, <1>2, <1>3, <1>4, PTL DEF MediaSpec

-----------------------------------------------------------------------------
(* The card and its log.                                                   *)

MonitorStates ==
    [handle : Cards \cup {NoCard}, storage : BOOLEAN, mounted : BOOLEAN, writing : BOOLEAN,
     logFile : Cards \cup {NoCard}, logSize : 0..LogLimit,
     captured : {q \in Seq(Cards \cup {NoCard}) : Len(q) <= MaxRecords}, gap : 0..Required]

(* The log is on the card that is mounted, and that is what was published. *)
LogRight(s) ==
    /\ s.writing <=> s.logFile # NoCard
    /\ s.logFile # NoCard => s.logFile = s.handle
    /\ s.storage <=> s.handle # NoCard
    /\ s.mounted => s.handle # NoCard

(* The samples: while the card is settled in its slot every sample that    *)
(* missed it counts against it, a mount is due only for a settled card,    *)
(* and a card that was mounted before it settled is still there.           *)
SamplesCount ==
    /\ mountDue => settled
    /\ settled => running /\ absent = differing
    /\ ~running => absent = 0
    /\ mounted /\ ~settled => card # NoCard /\ absent = 0
    /\ gap = Required

SdInv == SdTypeOK /\ LogRight(state) /\ SamplesCount

(* The fields that are given to the monitor's operators.                   *)
LEMMA StateFields ==
    /\ state.handle = handle /\ state.storage = storage /\ state.mounted = mounted
    /\ state.writing = writing /\ state.logFile = logFile /\ state.logSize = logSize
    /\ state.captured = captured /\ state.gap = gap
    /\ SdTypeOK => state \in MonitorStates
<1>1. ASSUME SdTypeOK PROVE state \in MonitorStates
  <2>1. /\ handle \in Cards \cup {NoCard} /\ logFile \in Cards \cup {NoCard}
        /\ storage \in BOOLEAN /\ mounted \in BOOLEAN /\ writing \in BOOLEAN
        /\ logSize \in 0..LogLimit /\ gap \in 0..Required
        /\ captured \in {q \in Seq(Cards \cup {NoCard}) : Len(q) <= MaxRecords}
    BY <1>1 DEF SdTypeOK
  <2> QED
    BY <2>1 DEF state, MonitorStates
<1> QED
  BY <1>1 DEF state

(* What the samples count is what RemovalIsDebounced says.                 *)
LEMMA SdServes == SdInv => SdCardServes
<1> SUFFICES ASSUME SdInv PROVE SdCardServes
  OBVIOUS
<1>1. LogOnMountedCard
  <2>1. (writing <=> logFile # NoCard) /\ (storage <=> handle # NoCard)
    BY StateFields DEF SdInv, LogRight
  <2>2. writing \in BOOLEAN /\ storage \in BOOLEAN
    BY DEF SdInv, SdTypeOK
  <2>3. writing = (logFile # NoCard)
    BY <2>1, <2>2, Zenon
  <2>4. storage = (handle # NoCard)
    BY <2>1, <2>2, Zenon
  <2> QED
    BY <2>3, <2>4, StateFields DEF SdInv, LogRight, LogOnMountedCard
<1>2. RemovalIsDebounced
  BY SdAssumption DEF SdInv, SamplesCount, SdTypeOK, RemovalIsDebounced
<1> QED
  BY <1>1, <1>2 DEF SdCardServes

(* mount.                                                                  *)
LEMMA MountsRight ==
    ASSUME SdTypeOK, NEW s \in MonitorStates, LogRight(s), NEW ok \in BOOLEAN,
           NEW t, t = Mounts(s, ok)
    PROVE  t \in MonitorStates /\ LogRight(t) /\ t.mounted = s.mounted /\ t.gap = s.gap
<1>0. card \in Cards \cup {NoCard}
  BY DEF SdTypeOK
<1>1. CASE s.handle # NoCard
  <2>1. t = [s EXCEPT !.storage = TRUE]
    BY <1>1 DEF Mounts
  <2> QED
    BY <1>1, <2>1 DEF MonitorStates, LogRight
<1>2. CASE s.handle = NoCard /\ ok /\ card # NoCard
  <2>1. t = [s EXCEPT !.handle = card, !.storage = TRUE]
    BY <1>2 DEF Mounts
  <2> QED
    BY <1>0, <1>2, <2>1 DEF MonitorStates, LogRight
<1>3. CASE s.handle = NoCard /\ ~(ok /\ card # NoCard)
  <2>1. t = [s EXCEPT !.storage = FALSE]
    BY <1>3 DEF Mounts
  <2> QED
    BY <1>3, <2>1 DEF MonitorStates, LogRight
<1> QED
  BY <1>1, <1>2, <1>3

(* start_logging on a mounted card.                                        *)
LEMMA LoggingRight ==
    ASSUME NEW s \in MonitorStates, LogRight(s), s.handle # NoCard, NEW log \in BOOLEAN,
           NEW size \in 0..LogLimit, NEW t, t = start_logging(s, log, size)
    PROVE  t \in MonitorStates /\ LogRight(t) /\ t.mounted = s.mounted /\ t.gap = s.gap
<1>1. CASE s.writing
  BY <1>1 DEF start_logging
<1>2. CASE ~s.writing /\ log
  <2>1. t = [s EXCEPT !.writing = TRUE, !.logFile = s.handle, !.logSize = size]
    BY <1>2 DEF start_logging, LogOpened
  <2> QED
    BY <2>1 DEF MonitorStates, LogRight
<1>3. CASE ~s.writing /\ ~log
  <2>1. t = [s EXCEPT !.writing = FALSE, !.logFile = NoCard]
    BY <1>3 DEF start_logging, LogOpened
  <2> QED
    BY <2>1 DEF MonitorStates, LogRight
<1> QED
  BY <1>1, <1>2, <1>3

(* attempt_mount.                                                          *)
LEMMA AttemptRight ==
    ASSUME SdTypeOK, NEW s \in MonitorStates, LogRight(s), NEW ok \in BOOLEAN,
           NEW log \in BOOLEAN, NEW size \in 0..LogLimit,
           NEW t, t = attempt_mount(s, ok, log, size)
    PROVE  t \in MonitorStates /\ LogRight(t) /\ t.gap = s.gap
<1> DEFINE m == Mounts(s, ok)
<1>1. m \in MonitorStates /\ LogRight(m) /\ m.gap = s.gap
  BY MountsRight
<1>2. t = IF m.storage THEN start_logging([m EXCEPT !.mounted = TRUE], log, size) ELSE m
  BY DEF attempt_mount
<1> HIDE DEF m
<1>3. CASE m.storage
  <2>1. PICK u : u = [m EXCEPT !.mounted = TRUE]
    OBVIOUS
  <2>2. u \in MonitorStates /\ LogRight(u) /\ u.handle # NoCard /\ u.gap = m.gap
    BY <1>1, <1>3, <2>1 DEF MonitorStates, LogRight
  <2>3. t = start_logging(u, log, size)
    BY <1>2, <1>3, <2>1, Zenon
  <2>4. t \in MonitorStates /\ LogRight(t) /\ t.gap = u.gap
    BY <2>2, <2>3, LoggingRight, SMTT(30)
  <2> QED
    BY <1>1, <2>2, <2>4, Zenon
<1>4. CASE ~m.storage
  BY <1>1, <1>2, <1>4
<1> QED
  BY <1>3, <1>4

(* accept_removal, when a card that is there can be unmounted.             *)
LEMMA RemovalRight ==
    ASSUME NEW s \in MonitorStates, LogRight(s), absent' \in 0..Required,
           NEW t, t = accept_removal(s, TRUE)
    PROVE  /\ t \in MonitorStates /\ LogRight(t) /\ ~t.mounted
           /\ t.gap = IF s.mounted THEN absent' ELSE s.gap
<1>1. CASE ~s.mounted
  BY <1>1 DEF accept_removal
<1>2. CASE s.mounted
  <2>1. PICK q : q = stop_and_drain_logging(s)
    OBVIOUS
  <2>2. q \in MonitorStates /\ q.writing = FALSE /\ q.logFile = NoCard
    <3>1. /\ q = [s EXCEPT !.writing = FALSE,
                           !.logFile = IF s.writing THEN NoCard ELSE s.logFile,
                           !.captured = <<>>]
          /\ (IF s.writing THEN NoCard ELSE s.logFile) = NoCard
      BY <2>1 DEF stop_and_drain_logging, LogRight
    <3>2. <<>> \in {r \in Seq(Cards \cup {NoCard}) : Len(r) <= MaxRecords}
      BY SdAssumption
    <3> QED
      BY <3>1, <3>2 DEF MonitorStates
  <2>3. t = [q EXCEPT !.handle = NoCard, !.storage = FALSE, !.mounted = FALSE, !.gap = absent']
    BY <1>2, <2>1 DEF accept_removal
  <2>4. /\ t.handle = NoCard /\ t.storage = FALSE /\ t.mounted = FALSE /\ t.gap = absent'
        /\ t.writing = FALSE /\ t.logFile = NoCard
    BY <2>2, <2>3 DEF MonitorStates
  <2>5. t \in MonitorStates
    BY <2>2, <2>3 DEF MonitorStates
  <2> QED
    BY <1>2, <2>4, <2>5 DEF LogRight
<1> QED
  BY <1>1, <1>2

(* A step that takes the operators' result.                                *)
LEMMA TakeRight ==
    ASSUME NEW t \in MonitorStates, LogRight(t), Take(t),
           card' \in Cards \cup {NoCard}, running' \in BOOLEAN, settled' \in BOOLEAN,
           mountDue' \in BOOLEAN, differing' \in 0..Required - 1, absent' \in 0..Required
    PROVE  SdTypeOK' /\ LogRight(state)' /\ mounted' = t.mounted /\ gap' = t.gap
<1>1. /\ handle' = t.handle /\ storage' = t.storage /\ mounted' = t.mounted
      /\ writing' = t.writing /\ logFile' = t.logFile /\ logSize' = t.logSize
      /\ captured' = t.captured /\ gap' = t.gap
  BY DEF Take
<1>2. SdTypeOK'
  BY <1>1 DEF SdTypeOK, MonitorStates
<1>3. LogRight(state)'
  BY <1>1 DEF state, LogRight
<1> QED
  BY <1>1, <1>2, <1>3

(* Nothing is mounted at the start.                                        *)
LEMMA SdStart == SdInit => SdInv
<1> SUFFICES ASSUME SdInit PROVE SdInv
  OBVIOUS
<1>1. SdTypeOK
  <2>1. {card, handle, logFile} \subseteq Cards \cup {NoCard}
    BY DEF SdInit
  <2>2. {storage, mounted, running, settled, mountDue, writing} \subseteq BOOLEAN
    BY Zenon DEF SdInit
  <2>3. differing \in 0..Required - 1 /\ logSize \in 0..LogLimit
        /\ absent \in 0..Required /\ gap \in 0..Required
    BY SdAssumption DEF SdInit
  <2>4. captured \in Seq(Cards \cup {NoCard}) /\ Len(captured) <= MaxRecords
    BY SdAssumption DEF SdInit
  <2> QED
    BY <2>1, <2>2, <2>3, <2>4 DEF SdTypeOK
<1>2. LogRight(state)
  BY DEF SdInit, state, LogRight
<1>3. SamplesCount
  BY DEF SdInit, SamplesCount
<1> QED
  BY <1>1, <1>2, <1>3 DEF SdInv

(* Every step keeps the card, its log and the counts of samples in step.   *)
LEMMA SdStep ==
    ASSUME ~QuickRemovals, "unmount" \notin SdFaults, SdInv, [SdNext]_sdVars
    PROVE  SdInv'
<1>0. /\ card \in Cards \cup {NoCard} /\ handle \in Cards \cup {NoCard}
      /\ logFile \in Cards \cup {NoCard}
      /\ storage \in BOOLEAN /\ mounted \in BOOLEAN /\ running \in BOOLEAN
      /\ settled \in BOOLEAN /\ mountDue \in BOOLEAN /\ writing \in BOOLEAN
      /\ differing \in 0..Required - 1 /\ logSize \in 0..LogLimit
      /\ absent \in 0..Required /\ gap \in 0..Required
      /\ captured \in Seq(Cards \cup {NoCard}) /\ Len(captured) <= MaxRecords
      /\ Required \in Nat \ {0} /\ LogLimit \in Nat \ {0} /\ MaxRecords \in Nat \ {0}
  BY SdAssumption DEF SdInv, SdTypeOK
<1>1. state \in MonitorStates /\ LogRight(state) /\ SdTypeOK
  BY StateFields DEF SdInv
<1>2. \A fault : Outcomes(fault) \subseteq BOOLEAN
  BY Zenon DEF Outcomes
<1>3. CASE MountForBoot
  <2>1. PICK ok \in BOOLEAN, log \in BOOLEAN, size \in 0..LogLimit :
           Take(LET m == Mounts(state, ok)
                IN  IF m.storage THEN start_logging(m, log, size) ELSE m)
    BY <1>2, <1>3 DEF MountForBoot
  <2>2. ~running /\ UNCHANGED <<card, running, settled, differing, mountDue, absent>>
    BY <1>3 DEF MountForBoot
  <2>3. PICK m : m = Mounts(state, ok)
    OBVIOUS
  <2>4. m \in MonitorStates /\ LogRight(m) /\ m.mounted = mounted /\ m.gap = gap
    BY <1>1, <2>3, MountsRight, StateFields
  <2>5. PICK t : t = IF m.storage THEN start_logging(m, log, size) ELSE m
    OBVIOUS
  <2>6. t \in MonitorStates /\ LogRight(t) /\ t.mounted = mounted /\ t.gap = gap
    <3>1. CASE m.storage
      <4>1. m.handle # NoCard
        BY <2>4, <3>1 DEF LogRight
      <4> QED
        BY <2>4, <2>5, <3>1, <4>1, LoggingRight
    <3>2. CASE ~m.storage
      BY <2>4, <2>5, <3>2
    <3> QED
      BY <3>1, <3>2
  <2>7. Take(t)
    BY <2>1, <2>3, <2>5
  <2>8. SdTypeOK' /\ LogRight(state)' /\ mounted' = mounted /\ gap' = gap
    BY <1>0, <2>2, <2>6, <2>7, TakeRight
  <2> QED
    BY <2>2, <2>8 DEF SdInv, SamplesCount
<1>4. CASE StartMonitor
  <2>1. PICK ok \in BOOLEAN, log \in BOOLEAN, size \in 0..LogLimit :
           Take(IF card # NoCard
                THEN attempt_mount([state EXCEPT !.mounted = FALSE], ok, log, size)
                ELSE [state EXCEPT !.mounted = FALSE])
    BY <1>2, <1>4 DEF StartMonitor
  <2>2. /\ ~running /\ running' = TRUE /\ settled' = FALSE /\ differing' = 0
        /\ mountDue' = FALSE /\ UNCHANGED <<card, absent>>
    BY <1>4 DEF StartMonitor
  <2>3. PICK s : s = [state EXCEPT !.mounted = FALSE]
    OBVIOUS
  <2>4. s \in MonitorStates /\ LogRight(s) /\ s.gap = gap /\ ~s.mounted
    BY <1>1, <2>3, StateFields DEF MonitorStates, LogRight
  <2>5. PICK t : t = IF card # NoCard THEN attempt_mount(s, ok, log, size) ELSE s
    OBVIOUS
  <2>6. /\ t \in MonitorStates /\ LogRight(t) /\ t.gap = gap
        /\ t.mounted => card # NoCard
    <3>1. CASE card # NoCard
      BY <1>1, <2>4, <2>5, <3>1, AttemptRight
    <3>2. CASE card = NoCard
      BY <2>4, <2>5, <3>2
    <3> QED
      BY <3>1, <3>2
  <2>7. Take(t)
    BY <2>1, <2>3, <2>5
  <2>8. 0 \in 0..Required - 1
    BY <1>0
  <2>9. SdTypeOK' /\ LogRight(state)' /\ mounted' = t.mounted /\ gap' = gap
    BY <1>0, <2>2, <2>6, <2>7, <2>8, TakeRight
  <2> QED
    BY <2>2, <2>6, <2>9 DEF SdInv, SamplesCount
<1>5. CASE PollMounts
  <2>1. PICK ok \in BOOLEAN, log \in BOOLEAN, size \in 0..LogLimit :
           Take(IF mounted THEN state ELSE attempt_mount(state, ok, log, size))
    BY <1>2, <1>5 DEF PollMounts
  <2>2. /\ running /\ mountDue /\ mountDue' = FALSE
        /\ UNCHANGED <<card, running, settled, differing, absent>>
    BY <1>5 DEF PollMounts
  <2>3. PICK t : t = IF mounted THEN state ELSE attempt_mount(state, ok, log, size)
    OBVIOUS
  <2>4. t \in MonitorStates /\ LogRight(t) /\ t.gap = gap
    BY <1>1, <2>3, AttemptRight, StateFields
  <2>5. SdTypeOK' /\ LogRight(state)' /\ gap' = gap
    BY <1>0, <2>1, <2>2, <2>3, <2>4, TakeRight
  <2> QED
    BY <2>2, <2>5 DEF SdInv, SamplesCount
<1>6. CASE SampleAgrees \/ SampleDiffers
  <2>1. /\ running /\ differing' \in 0..Required - 1 /\ absent' \in 0..Required
        /\ absent' = IF card # NoCard THEN 0 ELSE Counted
    BY <1>0, <1>6 DEF SampleAgrees, SampleDiffers, Inserted, Counted
  <2>2. UNCHANGED <<card, handle, storage, mounted, running, settled, mountDue, writing, logFile,
                    logSize, captured, gap>>
    BY <1>6 DEF SampleAgrees, SampleDiffers
  <2>3. SdTypeOK'
    BY <1>0, <2>1, <2>2 DEF SdTypeOK
  <2>4. LogRight(state)'
    BY <1>1, <2>2 DEF state, LogRight
  <2>5. ASSUME settled PROVE absent' = differing'
    <3>1. CASE SampleAgrees
      <4>1. Inserted /\ differing' = 0
        BY <2>5, <3>1, Zenon DEF SampleAgrees
      <4> QED
        BY <2>1, <4>1 DEF Inserted
    <3>2. CASE SampleDiffers
      <4>1. ~Inserted
        BY <1>0, <2>5, <3>2, Zenon DEF SampleDiffers, Inserted
      <4>2. differing' = differing + 1
        BY <3>2 DEF SampleDiffers
      <4> QED
        BY <1>0, <2>1, <2>5, <4>1, <4>2 DEF Inserted, Counted, SdInv, SamplesCount
    <3> QED
      BY <1>6, <3>1, <3>2
  <2> QED
    BY <2>1, <2>2, <2>3, <2>4, <2>5 DEF SdInv, SamplesCount
<1>7. CASE SampleSettles
  <2>1. /\ running /\ (Inserted # settled) /\ differing + 1 >= Required
        /\ settled' = Inserted /\ differing' = 0 /\ mountDue' = Inserted
        /\ absent' = IF Inserted THEN 0 ELSE Counted
        /\ UNCHANGED <<card, running>>
    BY <1>7 DEF SampleSettles
  <2>2. /\ absent' \in 0..Required /\ differing' \in 0..Required - 1
        /\ Inserted \in BOOLEAN
    BY <1>0, <2>1 DEF Counted, Inserted
  <2>3. CASE Inserted
    <3>1. Take(state) /\ settled' /\ mountDue'
      BY <1>7, <2>1, <2>3 DEF SampleSettles
    <3>2. SdTypeOK' /\ LogRight(state)' /\ gap' = gap
      BY <1>0, <1>1, <2>1, <2>2, <3>1, TakeRight, StateFields
    <3> QED
      BY <2>1, <2>3, <3>1, <3>2 DEF SdInv, SamplesCount
  <2>4. CASE ~Inserted
    <3>1. Outcomes("unmount") = {TRUE}
      BY DEF Outcomes
    <3>2. PICK t : t = accept_removal(state, TRUE)
      OBVIOUS
    <3>3. Take(t) /\ ~settled' /\ ~mountDue'
      <4>1. \E ok \in {TRUE} : Take(accept_removal(state, ok))
        BY <1>7, <2>4, <3>1, Zenon DEF SampleSettles
      <4>2. Take(accept_removal(state, TRUE))
        BY <4>1, Zenon
      <4>3. ~settled' /\ ~mountDue'
        BY <2>1, <2>4, Zenon
      <4> QED
        BY <3>2, <4>2, <4>3, Zenon
    <3>4. /\ t \in MonitorStates /\ LogRight(t) /\ ~t.mounted
          /\ t.gap = IF mounted THEN absent' ELSE gap
      BY <1>1, <2>2, <3>2, RemovalRight, StateFields
    <3>5. absent' = Required
      <4>1. settled
        BY <1>0, <2>1, <2>2, <2>4, Zenon
      <4> QED
        BY <1>0, <2>1, <2>4, <4>1 DEF Counted, SdInv, SamplesCount
    <3>6. gap' = Required /\ SdTypeOK' /\ LogRight(state)' /\ ~mounted'
      BY <1>0, <2>1, <2>2, <3>3, <3>4, <3>5, TakeRight DEF SdInv, SamplesCount
    <3> QED
      BY <2>1, <3>3, <3>6 DEF SdInv, SamplesCount
  <2> QED
    BY <2>3, <2>4
<1>8. CASE Capture
  <2>1. /\ captured' \in Seq(Cards \cup {NoCard}) /\ Len(captured') <= MaxRecords
    BY <1>0, <1>8 DEF Capture
  <2>2. UNCHANGED <<card, handle, storage, mounted, running, settled, differing, mountDue, writing,
                    logFile, logSize, absent, gap>>
    BY <1>8 DEF Capture
  <2>3. SdTypeOK'
    BY <1>0, <2>1, <2>2 DEF SdTypeOK
  <2>4. LogRight(state)'
    BY <1>1, <2>2 DEF state, LogRight
  <2> QED
    BY <2>2, <2>3, <2>4 DEF SdInv, SamplesCount
<1>9. CASE DrainRecord
  <2>1. /\ captured' \in Seq(Cards \cup {NoCard}) /\ Len(captured') <= MaxRecords
    BY <1>0, <1>9 DEF DrainRecord
  <2>2. UNCHANGED <<card, handle, storage, mounted, running, settled, differing, mountDue, absent,
                    gap>>
    BY <1>9 DEF DrainRecord
  <2>3. /\ writing' \in BOOLEAN /\ logFile' \in Cards \cup {NoCard} /\ logSize' \in 0..LogLimit
        /\ writing' <=> logFile' # NoCard
        /\ logFile' # NoCard => logFile' = logFile
    <3>1. writing <=> logFile # NoCard
      BY <1>1, StateFields DEF LogRight
    <3>2. CASE UNCHANGED <<writing, logFile>> /\ logSize' \in {logSize, logSize + 1}
               /\ logSize' \in 0..LogLimit
      BY <1>0, <3>1, <3>2
    <3>3. ASSUME writing, NEW renamed \in BOOLEAN, NEW log \in BOOLEAN,
                 writing' = log, logFile' = IF log THEN logFile ELSE NoCard,
                 logSize' = IF log /\ renamed THEN 1 ELSE logSize
          PROVE  <2>3
      <4>1. logSize' \in 0..LogLimit
        BY <1>0, <3>3
      <4> QED
        BY <1>0, <3>1, <3>3, <4>1
    <3>4. \/ UNCHANGED <<writing, logFile, logSize>>
          \/ UNCHANGED <<writing, logFile>> /\ logSize < LogLimit /\ logSize' = logSize + 1
          \/ \E renamed \in BOOLEAN, log \in BOOLEAN :
                /\ writing /\ writing' = log /\ logFile' = IF log THEN logFile ELSE NoCard
                /\ logSize' = IF log /\ renamed THEN 1 ELSE logSize
      BY <1>2, <1>9 DEF DrainRecord
    <3> QED
      BY <1>0, <3>2, <3>3, <3>4
  <2>4. SdTypeOK'
    BY <1>0, <2>1, <2>2, <2>3 DEF SdTypeOK
  <2>5. LogRight(state)'
    BY <1>1, <2>2, <2>3 DEF state, LogRight
  <2> QED
    BY <2>2, <2>4, <2>5 DEF SdInv, SamplesCount
<1>10. CASE TakeOut \/ (\E c \in Cards : PutIn(c)) \/ UNCHANGED sdVars
  <2>1. /\ card' \in Cards \cup {NoCard}
        /\ UNCHANGED <<handle, storage, mounted, running, settled, differing, mountDue, writing,
                       logFile, logSize, captured, absent, gap>>
        /\ ~settled /\ card # NoCard => card' # NoCard
    BY <1>0, <1>10 DEF TakeOut, PutIn, sdVars
  <2>2. SdTypeOK'
    BY <1>0, <2>1 DEF SdTypeOK
  <2>3. LogRight(state)'
    BY <1>1, <2>1 DEF state, LogRight
  <2> QED
    BY <2>1, <2>2, <2>3 DEF SdInv, SamplesCount
<1> QED
  BY <1>3, <1>4, <1>5, <1>6, <1>7, <1>8, <1>9, <1>10 DEF SdNext

(* The card and its log are in step with the slot, for any number of       *)
(* samples, records and cards and through failed mounts, opens and renames *)
(* (sd_card_lifecycle.cpp): the log is only on the mounted card, and a     *)
(* card is unmounted exactly when enough samples in a row have missed it,  *)
(* provided that a card stays until it has settled and can be unmounted.   *)
THEOREM SdCardInStep ==
    ASSUME ~QuickRemovals, "unmount" \notin SdFaults
    PROVE  SdSpec => []SdCardServes
BY SdStart, SdStep, SdServes, PTL DEF SdSpec
=============================================================================
