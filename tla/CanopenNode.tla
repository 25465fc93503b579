---------------------------- MODULE CanopenNode ----------------------------
(***************************************************************************)
(* The CANopen node.  One task receives the frames that wait, takes over   *)
(* the error register of the driver and then processes a cycle of 10 ms:   *)
(* the delayed restart, and the boot-up message or a heartbeat.  A master  *)
(* commands the node by NMT messages and writes the heartbeat's period.    *)
(* The transmit PDOs of the same cycle share no state with this            *)
(* (CanopenPdo).  Times are counted in cycles.                             *)
(***************************************************************************)
EXTENDS Naturals

CONSTANTS
    Periods,         \* what a master writes as the heartbeat's period
    FirstLimit,      \* first_heartbeat_limit_milliseconds
    RestartDelay     \* restart_delay_milliseconds

ASSUME CanAssumption ==
    /\ Periods \subseteq Nat /\ FirstLimit \in Nat \ {0} /\ RestartDelay \in Nat \ {0}

NmtStates == {"initializing", "stopped", "operational", "pre_operational"}

VARIABLES
    nmt,         \* state_
    bootup,      \* bootup_pending_
    forced,      \* heartbeat_forced_
    period,      \* producer_period_milliseconds_
    remaining,   \* heartbeat_remaining_milliseconds_
    restarting,  \* restart_remaining_milliseconds_
    heard,       \* the state the last heartbeat or boot-up message named
    silence      \* cycles since then, or since the period was written

canVars == <<nmt, bootup, forced, period, remaining, restarting, heard, silence>>

Lesser(a, b) == IF a < b THEN a ELSE b

CanTypeOK ==
    /\ nmt \in NmtStates /\ bootup \in BOOLEAN /\ forced \in BOOLEAN
    /\ period \in Periods \cup {0} /\ remaining \in Nat /\ remaining <= period
    /\ restarting \in 0..RestartDelay
    /\ heard \in NmtStates \cup {"none"} /\ silence \in Nat

CanInit ==
    /\ nmt = "initializing" /\ bootup = TRUE /\ forced = FALSE
    /\ period = 0 /\ remaining = 0 /\ restarting = 0
    /\ heard = "none" /\ silence = 0

-----------------------------------------------------------------------------
(* select_state: a new state is published by the next cycle.                *)
select_state(new) ==
    /\ nmt' = new
    /\ forced' = (forced \/ (new # nmt /\ period # 0))

(* accept_nmt, of a message to this node or to all.                         *)
AcceptState(new) ==
    /\ new \in NmtStates \ {"initializing"} /\ select_state(new)
    /\ UNCHANGED <<bootup, period, remaining, restarting, heard, silence>>

AcceptResetNode ==
    /\ restarting' = RestartDelay
    /\ UNCHANGED <<nmt, bootup, forced, period, remaining, heard, silence>>

(* reset_communication keeps the dictionary.                                *)
AcceptResetCommunication ==
    /\ nmt' = "initializing" /\ bootup' = TRUE /\ forced' = FALSE
    /\ remaining' = Lesser(period, FirstLimit)
    /\ UNCHANGED <<period, restarting, heard, silence>>

-----------------------------------------------------------------------------
(* set_producer_heartbeat_period, the effect of a write.                    *)
WritePeriod(p) ==
    /\ period' = p /\ remaining' = p /\ forced' = (p # 0) /\ silence' = 0
    /\ UNCHANGED <<nmt, bootup, restarting, heard>>

-----------------------------------------------------------------------------
(* process_cycle of the node, after set_error_register took an operational  *)
(* node with an error out of operation.                                     *)
Observed(error) == IF error /\ nmt = "operational" THEN "pre_operational" ELSE nmt
Forced(error) == forced \/ (Observed(error) # nmt /\ period # 0)
Ticked(time) == IF time = 0 THEN 0 ELSE time - 1

Beat(state) == heard' = state /\ silence' = 0
Silent == heard' = heard /\ silence' = IF period = 0 THEN 0 ELSE silence + 1

NodeCycle(error) ==
    \/ /\ bootup /\ bootup' = FALSE /\ nmt' = "operational" /\ Beat("initializing")
       /\ remaining' = IF period # 0 THEN Ticked(remaining) ELSE remaining
       /\ forced' = Forced(error)
    \/ /\ ~bootup /\ period = 0
       /\ nmt' = Observed(error) /\ forced' = Forced(error) /\ Silent
       /\ UNCHANGED <<bootup, remaining>>
    \/ /\ ~bootup /\ period # 0 /\ (Forced(error) \/ Ticked(remaining) = 0)
       /\ nmt' = Observed(error) /\ forced' = FALSE /\ Beat(Observed(error))
       /\ remaining' = period /\ UNCHANGED bootup
    \/ /\ ~bootup /\ period # 0 /\ ~Forced(error) /\ Ticked(remaining) # 0
       /\ nmt' = Observed(error) /\ forced' = FALSE /\ Silent
       /\ remaining' = Ticked(remaining) /\ UNCHANGED bootup

(* One cycle of the service; the machine restarts at its end when the       *)
(* delay of a reset has passed.                                             *)
Cycle(error) ==
    /\ restarting # 1 /\ restarting' = Ticked(restarting)
    /\ NodeCycle(error) /\ UNCHANGED period

CanRestart ==
    /\ restarting = 1
    /\ nmt' = "initializing" /\ bootup' = TRUE /\ forced' = FALSE
    /\ period' = 0 /\ remaining' = 0 /\ restarting' = 0
    /\ heard' = "none" /\ silence' = 0

CanNext ==
    \/ \E new \in NmtStates : AcceptState(new)
    \/ AcceptResetNode \/ AcceptResetCommunication
    \/ \E p \in Periods : WritePeriod(p)
    \/ \E error \in BOOLEAN : Cycle(error)
    \/ CanRestart

CanSpec == CanInit /\ [][CanNext]_canVars

-----------------------------------------------------------------------------
(* A master that asked for heartbeats hears one in every period, whatever   *)
(* else the node is told meanwhile (CanopenNode::process_cycle).            *)
HeardInTime == period # 0 => silence < period

(* What the master heard last is the state of the node, or the next cycle    *)
(* tells it; after a boot-up message it knows the node to be operational    *)
(* (select_state, heartbeat_forced_).                                       *)
HeardIsTrue ==
    period # 0 => \/ forced \/ bootup \/ heard = nmt
                  \/ heard = "initializing" /\ nmt = "operational"

(* The master hears of the node, and the truth.                             *)
NodeReports == HeardInTime /\ HeardIsTrue
=============================================================================
