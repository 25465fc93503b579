------------------------------ MODULE HostOutput ------------------------------
(***************************************************************************)
(* The way of a frame to the hosts: every task admits frames to the        *)
(* scheduler, which drops what nobody could receive, and one task takes    *)
(* them out and delivers them, to USB first.  Delivery to TCP clients      *)
(* holds the mutex of the registry that clients enter and leave.  A frame  *)
(* is only its class, a queue of frames its length; the scheduler knows    *)
(* its hosts (HostDestinations is about how it learns of them).            *)
(***************************************************************************)
EXTENDS Integers, FiniteSets

CONSTANTS
    Slots,          \* TCP client slots
    DataLimit,      \* maximum_download_data
    OtherLimit,     \* maximum_non_download
    Stalls,         \* TRUE: a TCP client may stop reading for good
    LeaveListing    \* TRUE: the last host may leave while a listing waits

ASSUME OutputAssumption ==
    /\ {DataLimit, OtherLimit} \subseteq Nat \ {0}
    /\ {Stalls, LeaveListing} \subseteq BOOLEAN /\ "output" \notin Slots

VARIABLES
    client,     \* slot -> its client: "gone", "joining", "in" the registry, "leaving"
    locked,     \* the output task holds tcp_session_registry_mutex
    usb,        \* a USB host takes frames
    data,       \* download_data_
    others,     \* non_download_
    lister,     \* a listing: "idle", or "waiting" for room
    output,     \* where the output task is
    batch       \* frames of the selection still to deliver

outputVars == <<client, locked, usb, data, others, lister, output, batch>>

OutputTypeOK ==
    /\ client \in [Slots -> {"gone", "joining", "in", "leaving"}]
    /\ locked \in BOOLEAN /\ usb \in BOOLEAN
    /\ data \in 0..DataLimit /\ others \in 0..OtherLimit
    /\ lister \in {"idle", "waiting"}
    /\ output \in {"select", "deliver", "tcp", "send"} /\ batch \in 0..OtherLimit + 1

OutputInit ==
    /\ client = [s \in Slots |-> "gone"] /\ locked = FALSE /\ usb = FALSE
    /\ data = 0 /\ others = 0 /\ lister = "idle" /\ output = "select" /\ batch = 0

-----------------------------------------------------------------------------
SomeHost(u, c) == u \/ \E s \in Slots : c[s] \in {"in", "leaving"}

(* set_active_destinations: with the last host goes what is not download    *)
(* data, and waiting listings are woken.                                    *)
purge(u, c) ==
    /\ others' = IF SomeHost(u, c) THEN others ELSE 0
    /\ SomeHost(u, c) \/ lister = "idle" \/ LeaveListing

Arrive(s) ==
    /\ client[s] = "gone" /\ client' = [client EXCEPT ![s] = "joining"]
    /\ UNCHANGED <<locked, usb, data, others, lister, output, batch>>

Depart(s) ==
    /\ client[s] = "in" /\ client' = [client EXCEPT ![s] = "leaving"]
    /\ UNCHANGED <<locked, usb, data, others, lister, output, batch>>

(* A client task enters the registry, or leaves it.                         *)
Register(s) ==
    /\ ~locked /\ client[s] \in {"joining", "leaving"}
    /\ client' = [client EXCEPT ![s] = IF @ = "joining" THEN "in" ELSE "gone"]
    /\ purge(usb, client')
    /\ UNCHANGED <<locked, usb, data, lister, output, batch>>

(* The USB host comes to speak, or is gone.                                 *)
UsbChanges ==
    /\ usb' = ~usb /\ purge(usb', client)
    /\ UNCHANGED <<client, locked, data, lister, output, batch>>

-----------------------------------------------------------------------------
(* admit.  A frame that finds its queue full is dropped; the controller's   *)
(* own frames, an alarm and a console error take the queue with them.       *)
AdmitData ==
    /\ data < DataLimit /\ data' = data + 1
    /\ UNCHANGED <<client, locked, usb, others, lister, output, batch>>

AdmitOther(purges) ==
    /\ SomeHost(usb, client)
    /\ others' = IF others < OtherLimit THEN others + 1
                 ELSE IF purges THEN 0 ELSE others
    /\ UNCHANGED <<client, locked, usb, data, lister, output, batch>>

(* admit_listing waits for room, or gives up; woken, it asks no more        *)
(* whether there is a host.                                                 *)
AdmitListing ==
    /\ lister = "idle" /\ SomeHost(usb, client) /\ others = OtherLimit
    /\ lister' = "waiting"
    /\ UNCHANGED <<client, locked, usb, data, others, output, batch>>

ListingWakes ==
    /\ lister = "waiting"
    /\ lister' = "idle"
    /\ others' = IF others < OtherLimit THEN others + 1 ELSE others
    /\ UNCHANGED <<client, locked, usb, data, output, batch>>

-----------------------------------------------------------------------------
(* Mutant: download data waits for the other frames to be gone.             *)
taken_data_last == IF data > 0 /\ others = 0 THEN 1 ELSE 0

(* select: one frame of download data and all the others.                   *)
taken_data == IF data > 0 THEN 1 ELSE 0

Select ==
    /\ output = "select" /\ data + others > 0
    /\ data' = data - taken_data /\ others' = 0
    /\ batch' = taken_data + others
    /\ output' = "deliver"
    /\ UNCHANGED <<client, locked, usb, lister>>

Delivered ==
    /\ output = "deliver" /\ batch = 0
    /\ output' = "select"
    /\ UNCHANGED <<client, locked, usb, data, others, lister, batch>>

(* deliver: to USB, where a queue that stays full makes USB fail, and to    *)
(* TCP, or to one of the two.                                               *)
DeliverUsb(alsoTcp) ==
    /\ output = "deliver" /\ batch > 0
    /\ \/ UNCHANGED <<usb, others>>
       \/ usb /\ usb' = FALSE /\ purge(usb', client)
    /\ IF alsoTcp THEN output' = "tcp" /\ UNCHANGED batch
                  ELSE batch' = batch - 1 /\ UNCHANGED output
    /\ UNCHANGED <<client, locked, data, lister>>

DeliverTcp ==
    /\ output = "deliver" /\ batch > 0
    /\ output' = "tcp"
    /\ UNCHANGED <<client, locked, usb, data, others, lister, batch>>

(* The registry stays locked while a client takes the bytes; one that does  *)
(* not is tried again and again.                                            *)
LockRegistry ==
    /\ output = "tcp"
    /\ locked' = TRUE /\ output' = "send"
    /\ UNCHANGED <<client, usb, data, others, lister, batch>>

Sent ==
    /\ output = "send"
    /\ output' = "deliver" /\ locked' = FALSE /\ batch' = batch - 1
    /\ UNCHANGED <<client, usb, data, others, lister>>

OutputTask ==
    \/ Select \/ Delivered \/ DeliverTcp \/ LockRegistry
    \/ \E alsoTcp \in BOOLEAN : DeliverUsb(alsoTcp)

OutputNext ==
    \/ \E s \in Slots : Arrive(s) \/ Depart(s) \/ Register(s)
    \/ UsbChanges \/ AdmitData \/ (\E purges \in BOOLEAN : AdmitOther(purges))
    \/ AdmitListing \/ ListingWakes
    \/ OutputTask \/ Sent

OutputSpec == OutputInit /\ [][OutputNext]_outputVars

(* The tasks run, the mutex goes to those who wait for it, and a client     *)
(* that does not stall takes what it is sent.                               *)
OutputFairness ==
    /\ WF_outputVars(OutputTask) /\ WF_outputVars(ListingWakes)
    /\ \A s \in Slots : SF_outputVars(Register(s))
    /\ Stalls \/ WF_outputVars(Sent)

-----------------------------------------------------------------------------
(* Without a host no frame but download data is pending (admit,             *)
(* admit_listing, set_active_destinations).                                 *)
NobodyNothing == SomeHost(usb, client) \/ others = 0

(* Full queues are emptied, download data one at a time among the others,   *)
(* and clients come and go: nobody waits for ever for the output task or    *)
(* its mutex (select, deliver_tcp_frame).                                   *)
OutputFlows ==
    /\ data = DataLimit \/ others = OtherLimit ~> data < DataLimit /\ others < OtherLimit
    /\ \A s \in Slots : client[s] = "joining" ~> client[s] = "in"

(* Output goes on while there are hosts, and stops with the last one.       *)
OutputServes == []NobodyNothing /\ OutputFlows
=============================================================================
