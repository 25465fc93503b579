----------------------------- MODULE UsbRecovery -----------------------------
(***************************************************************************)
(* How the mainboard gets a USB host back: the TinyUSB task tells the      *)
(* recovery of a lost or restored connection, and a task of its own polls  *)
(* it and takes the BVALID input of the peripheral low and high again, so  *)
(* that the host sees a cable unplugged and plugged.  The phase and the    *)
(* deadline are two atomics that both tasks read and write one at a time.  *)
(* A deadline is only known to have passed or not.                         *)
(***************************************************************************)
EXTENDS Integers, Sequences

CONSTANT MaxEvents  \* bound: events of the bus TinyUSB has not handled yet

ASSUME RecoveryAssumption == MaxEvents \in Nat \ {0}

Phases == {"inactive", "waiting_to_disconnect", "holding_disconnected", "waiting_for_mount"}

VARIABLES
    plugged,    \* a host is at the other end of the cable
    bvalid,     \* the BVALID input of the peripheral
    bus,        \* what the peripheral sees: "off", "configured", "suspended"
    events,     \* what it has to tell TinyUSB
    callback,   \* the atomic store the callback in progress still has to do
    phase,      \* phase_
    due,        \* deadline_milliseconds_ has passed
    poller,     \* where usb_reconnect_task is in poll
    seen        \* the phase poll has read

recoveryVars == <<plugged, bvalid, bus, events, callback, phase, due, poller, seen>>

RecoveryTypeOK ==
    /\ plugged \in BOOLEAN /\ bvalid \in BOOLEAN
    /\ bus \in {"off", "configured", "suspended"}
    /\ events \in Seq({"mount", "umount", "suspend", "resume"}) /\ Len(events) <= MaxEvents + 1
    /\ callback \in {"none", "lost", "restored"}
    /\ phase \in Phases /\ due \in BOOLEAN
    /\ poller \in {"idle", "loaded", "due", "stored", "drive"} /\ seen \in Phases

RecoveryInit ==
    /\ plugged = FALSE /\ bvalid = TRUE /\ bus = "off" /\ events = <<>>
    /\ callback = "none" /\ phase = "inactive" /\ due = TRUE
    /\ poller = "idle" /\ seen = "inactive"

-----------------------------------------------------------------------------
(* The cable and the host.  A peripheral that is not told by BVALID takes   *)
(* an unplugged cable for a suspended bus.                                  *)
Tell(e) == Len(events) < MaxEvents /\ events' = Append(events, e)

Plug ==
    /\ ~plugged /\ plugged' = TRUE
    /\ UNCHANGED <<bvalid, bus, events, callback, phase, due, poller, seen>>

Enumerate ==
    /\ plugged /\ bvalid /\ bus # "configured"
    /\ bus' = "configured" /\ events' = Append(events, "mount") /\ Len(events) <= MaxEvents
    /\ UNCHANGED <<plugged, bvalid, callback, phase, due, poller, seen>>

SuspendBus(unplug) ==
    /\ plugged /\ bus = "configured"
    /\ bus' = "suspended" /\ Tell("suspend") /\ plugged' = ~unplug
    /\ UNCHANGED <<bvalid, callback, phase, due, poller, seen>>

ResumeBus ==
    /\ plugged /\ bus = "suspended"
    /\ bus' = "configured" /\ Tell("resume")
    /\ UNCHANGED <<plugged, bvalid, callback, phase, due, poller, seen>>

-----------------------------------------------------------------------------
(* connection_lost: the phase, unless a recovery is under way, then the     *)
(* deadline.                                                                *)
ConnectionLost ==
    /\ callback = "none" /\ events # <<>> /\ Head(events) \in {"umount", "suspend"}
    /\ events' = Tail(events)
    /\ IF phase = "inactive"
       THEN phase' = "waiting_to_disconnect" /\ callback' = "lost"
       ELSE UNCHANGED <<phase, callback>>
    /\ UNCHANGED <<plugged, bvalid, bus, due, poller, seen>>

LostDeadline ==
    /\ callback = "lost"
    /\ due' = FALSE /\ callback' = "none"
    /\ UNCHANGED <<plugged, bvalid, bus, events, phase, poller, seen>>

(* connection_restored: the phase, then the deadline.                       *)
ConnectionRestored ==
    /\ callback = "none" /\ events # <<>> /\ Head(events) \in {"mount", "resume"}
    /\ events' = Tail(events)
    /\ phase' = "inactive" /\ callback' = "restored"
    /\ UNCHANGED <<plugged, bvalid, bus, due, poller, seen>>

RestoredDeadline ==
    /\ callback = "restored"
    /\ due' = TRUE /\ callback' = "none"
    /\ UNCHANGED <<plugged, bvalid, bus, events, phase, poller, seen>>

DeadlinePasses ==
    /\ ~due /\ due' = TRUE
    /\ UNCHANGED <<plugged, bvalid, bus, events, callback, phase, poller, seen>>

-----------------------------------------------------------------------------
(* poll reads the phase, then the deadline, stores the next phase, then its *)
(* deadline, and the task drives the input.                                 *)
PollPhase ==
    /\ poller = "idle"
    /\ seen' = phase
    /\ poller' = IF phase = "inactive" THEN "idle" ELSE "loaded"
    /\ UNCHANGED <<plugged, bvalid, bus, events, callback, phase, due>>

PollDeadline ==
    /\ poller = "loaded"
    /\ poller' = IF due THEN "due" ELSE "idle"
    /\ UNCHANGED <<plugged, bvalid, bus, events, callback, phase, due, seen>>

(* Mutant: a host that is still missing is waited for, and no cycle again.  *)
next_phase_once ==
    IF seen = "waiting_to_disconnect" THEN "holding_disconnected" ELSE "waiting_for_mount"

next_phase ==
    IF seen = "holding_disconnected" THEN "waiting_for_mount" ELSE "holding_disconnected"

PollStore ==
    /\ poller = "due"
    /\ phase' = next_phase /\ poller' = "stored"
    /\ UNCHANGED <<plugged, bvalid, bus, events, callback, due, seen>>

PollRetry ==
    /\ poller = "stored"
    /\ due' = FALSE /\ poller' = "drive"
    /\ UNCHANGED <<plugged, bvalid, bus, events, callback, phase, seen>>

(* The peripheral tells of the end of the session when the input goes low,  *)
(* and no bus event of the lost session comes after that.                   *)
DriveBvalid ==
    /\ poller = "drive"
    /\ bvalid' = (seen = "holding_disconnected")
    /\ bvalid' \/ Len(events) < MaxEvents
    /\ bus' = IF bvalid' THEN bus ELSE "off"
    /\ events' = IF bvalid /\ ~bvalid' THEN Append(events, "umount") ELSE events
    /\ poller' = "idle"
    /\ UNCHANGED <<plugged, callback, phase, due, seen>>

RecoveryCallbacks == ConnectionLost \/ LostDeadline \/ ConnectionRestored \/ RestoredDeadline
RecoveryPoll == PollPhase \/ PollDeadline \/ PollStore \/ PollRetry \/ DriveBvalid

RecoveryNext ==
    \/ Plug \/ Enumerate \/ ResumeBus \/ \E unplug \in BOOLEAN : SuspendBus(unplug)
    \/ RecoveryCallbacks \/ DeadlinePasses \/ RecoveryPoll

RecoverySpec == RecoveryInit /\ [][RecoveryNext]_recoveryVars

(* Both tasks run, time passes, and a host that can enumerates.  It is not  *)
(* asked to resume a bus it suspended.                                      *)
RecoveryFairness ==
    /\ WF_recoveryVars(RecoveryCallbacks) /\ WF_recoveryVars(RecoveryPoll)
    /\ WF_recoveryVars(DeadlinePasses)
    /\ SF_recoveryVars(bus = "off" /\ Enumerate)

-----------------------------------------------------------------------------
(* A host that stays plugged is configured again and again, wherever the    *)
(* callbacks fall between the loads and stores of poll: no interleaving     *)
(* leaves the input low or a lost connection without a recovery (poll,      *)
(* connection_lost, connection_restored).                                   *)
PluggedIsConfigured == <>[]plugged => []<>(bus = "configured")

(* No recovery is left armed on a connection that is up and quiet: what     *)
(* poll stores over connection_restored is undone by the mount that follows.*)
LiveIsLeftAlone ==
    bus = "configured" /\ events = <<>> /\ callback = "none" /\ poller = "idle" =>
        phase = "inactive"

(* Recovery brings a plugged host back and then leaves it alone.            *)
UsbRecovers == []LiveIsLeftAlone /\ PluggedIsConfigured
=============================================================================
