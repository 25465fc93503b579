----------------------------- MODULE CanopenPdo -----------------------------
(***************************************************************************)
(* The transmit PDOs of the CANopen node, which a master sets up by SDO    *)
(* downloads to the object dictionary, and the scheduler that sends at     *)
(* most one of them in a cycle of 10 ms.  Times are counted in cycles.     *)
(*                                                                         *)
(* Of what is mapped it matters whether a frame can be made of it: no      *)
(* entry is empty, and eight bytes are not exceeded.                       *)
(***************************************************************************)
EXTENDS Naturals

CONSTANTS
    PdoCount,   \* transmit PDOs
    Timers      \* what a master writes as an event timer

(* An event timer has 16 bits, so one of them is the longest.               *)
ASSUME PdoAssumption ==
    /\ PdoCount \in Nat \ {0} /\ Timers \subseteq Nat
    /\ \E t \in Timers : \A u \in Timers : u <= t

Pdos == 0..PdoCount - 1

VARIABLES
    pdo,         \* the dictionary's transmit PDOs: [enabled, timer, sendable]
    elapsed,     \* elapsed_milliseconds_ of each, counted up to the longest timer
    waited       \* cycles it waits, since it was sent or written

pdoVars == <<pdo, elapsed, waited>>

PdoSettings == [enabled : BOOLEAN, timer : Timers \cup {0}, sendable : BOOLEAN]
Longest == CHOOSE t \in Timers : \A u \in Timers : u <= t
UpTo(time, limit) == IF time < limit THEN time ELSE limit

(* The bound on the cycles that are counted.                                *)
LongestWait == 2^(PdoCount - 1) * Longest

PdoTypeOK ==
    /\ pdo \in [Pdos -> PdoSettings] /\ elapsed \in [Pdos -> 0..Longest]
    /\ waited \in [Pdos -> 0..LongestWait]

PdoInit ==
    /\ pdo = [p \in Pdos |-> [enabled |-> FALSE, timer |-> 0, sendable |-> TRUE]]
    /\ elapsed = [p \in Pdos |-> 0] /\ waited = [p \in Pdos |-> 0]

-----------------------------------------------------------------------------
(* A write that the dictionary accepts (CanopenDictionary).                  *)
Assign(p, setting) ==
    /\ pdo' = [pdo EXCEPT ![p] = setting] /\ waited' = [waited EXCEPT ![p] = 0]
    /\ UNCHANGED elapsed

WriteIdentifier(p, enabled) ==
    Assign(p, [pdo[p] EXCEPT !.enabled = enabled])
WriteTimer(p, timer) == Assign(p, [pdo[p] EXCEPT !.timer = timer])
WriteMapping(p, sendable) == Assign(p, [pdo[p] EXCEPT !.sendable = sendable])

-----------------------------------------------------------------------------
Clock(p) == UpTo(elapsed[p] + 1, Longest)
build_tpdo(p) ==
    pdo[p].enabled /\ pdo[p].timer # 0 /\ Clock(p) >= pdo[p].timer /\ pdo[p].sendable

(* The ones that wait count the cycles; the clock of an idle one is of no   *)
(* interest.                                                                *)
Waits(p) == IF pdo[p].enabled /\ pdo[p].timer # 0 /\ pdo[p].sendable
            THEN UpTo(waited[p] + 1, LongestWait) ELSE 0

(* The first one that is due is sent, and the clocks of the ones after it   *)
(* stand still for this cycle.                                              *)
Sends(sent) ==
    /\ build_tpdo(sent) /\ \A p \in 0..sent - 1 : ~build_tpdo(p)
    /\ elapsed' = [p \in Pdos |->
          IF p = sent THEN 0 ELSE IF p < sent THEN Clock(p) ELSE elapsed[p]]
    /\ waited' = [p \in Pdos |-> IF p = sent THEN 0 ELSE Waits(p)]
    /\ UNCHANGED pdo

SendsNone ==
    /\ \A p \in Pdos : ~build_tpdo(p)
    /\ elapsed' = [p \in Pdos |-> Clock(p)] /\ waited' = [p \in Pdos |-> Waits(p)]
    /\ UNCHANGED pdo

PdoNext ==
    \/ \E p \in Pdos :
          \/ \E t \in Timers : WriteTimer(p, t)
          \/ \E b \in BOOLEAN : WriteIdentifier(p, b) \/ WriteMapping(p, b)
          \/ Sends(p)
    \/ SendsNone

PdoSpec == PdoInit /\ [][PdoNext]_pdoVars

-----------------------------------------------------------------------------
(* The ones before a transmit PDO stop its clock when they are sent, so it  *)
(* may wait for longer than its timer says, but for no longer than twice as *)
(* long for every one before it, as long as no timer is a single cycle      *)
(* (CanopenTransmitPdoScheduler).                                           *)
TpdoPaced ==
    \A p \in Pdos : (pdo[p].enabled /\ pdo[p].timer # 0 /\ pdo[p].sendable)
                        => waited[p] < 2^p * pdo[p].timer
=============================================================================
