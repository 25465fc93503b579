-------------------------- MODULE HostDestinations --------------------------
(***************************************************************************)
(* How the output scheduler learns whether there is a host to send to.     *)
(* Client tasks, the task that decodes USB frames, the TinyUSB callbacks   *)
(* and the output task report a change in three steps: they store the flag *)
(* of their transport, load both flags, and set both in the scheduler.     *)
(* Client tasks do so with the registry locked; the others have no lock.   *)
(***************************************************************************)
EXTENDS Integers, FiniteSets

CONSTANTS
    MaxClients,         \* maximum_clients
    ReportsOverlap      \* TRUE: a report may begin while another is under way

ASSUME DestinationsAssumption == MaxClients \in Nat /\ ReportsOverlap \in BOOLEAN

Reporters == {"client", "receiver", "callback", "output"}

VARIABLES
    registered,     \* clients in tcp_sessions
    usbHost,        \* the USB host: "absent", "silent", "active", "failed"
    report,         \* reporter -> what its report has to do and has found out
    usbActive, tcpActive,   \* the flags of the adapter
    usbKnown, tcpKnown      \* usb_active_ and tcp_active_ of the scheduler

destinationVars == <<registered, usbHost, report, usbActive, tcpActive, usbKnown, tcpKnown>>

NoReport == [at |-> "idle", value |-> FALSE, left |-> {}, usb |-> FALSE, tcp |-> FALSE]

DestinationsTypeOK ==
    /\ registered \in 0..MaxClients
    /\ usbHost \in {"absent", "silent", "active", "failed"}
    /\ report \in [Reporters -> [at : {"idle", "store", "load"}, value : BOOLEAN,
                                 left : SUBSET {"usb", "tcp"}, usb : BOOLEAN, tcp : BOOLEAN]]
    /\ {usbActive, tcpActive, usbKnown, tcpKnown} \subseteq BOOLEAN

DestinationsInit ==
    /\ registered = 0 /\ usbHost = "absent"
    /\ report = [r \in Reporters |-> NoReport]
    /\ usbActive = FALSE /\ tcpActive = FALSE /\ usbKnown = FALSE /\ tcpKnown = FALSE

Reporting == \E r \in Reporters : report[r].at # "idle"

(* A report begins with the value it is going to store.                     *)
Report(r, v) ==
    /\ report[r].at = "idle" /\ (Reporting => ReportsOverlap)
    /\ report' = [report EXCEPT ![r] = [NoReport EXCEPT !.at = "store", !.value = v]]
    /\ UNCHANGED <<usbActive, tcpActive, usbKnown, tcpKnown>>

(* A client enters or leaves the registry.                                  *)
Join ==
    /\ registered < MaxClients /\ registered' = registered + 1
    /\ Report("client", TRUE) /\ UNCHANGED usbHost

(* Mutant: the client that leaves speaks for all.                           *)
LeaveForAll ==
    /\ registered > 0 /\ registered' = registered - 1
    /\ Report("client", FALSE) /\ UNCHANGED usbHost

Leave ==
    /\ registered > 0 /\ registered' = registered - 1
    /\ Report("client", registered' > 0) /\ UNCHANGED usbHost

(* A valid USB frame; the callbacks of a mount and an unmount; the transmit *)
(* queue found full by the output task.                                     *)
UsbSpeaks ==
    /\ usbHost # "absent"
    /\ usbHost' = IF usbHost = "silent" THEN "active" ELSE usbHost
    /\ Report("receiver", usbHost' = "active") /\ UNCHANGED registered

UsbCallback ==
    /\ usbHost' = IF usbHost = "absent" THEN "silent" ELSE "absent"
    /\ Report("callback", FALSE) /\ UNCHANGED registered

UsbFails ==
    /\ usbHost = "active" /\ usbHost' = "failed"
    /\ Report("output", FALSE) /\ UNCHANGED registered

(* set_host_output_tcp_active, set_host_output_usb_active.                  *)
StoreFlag(r) ==
    /\ report[r].at = "store"
    /\ IF r = "client" THEN tcpActive' = report[r].value /\ UNCHANGED usbActive
                       ELSE usbActive' = report[r].value /\ UNCHANGED tcpActive
    /\ report' = [report EXCEPT ![r].at = "load", ![r].left = {"usb", "tcp"}]
    /\ UNCHANGED <<registered, usbHost, usbKnown, tcpKnown>>

(* update_destinations: two loads, in any order, then the scheduler.        *)
LoadFlag(r, flag) ==
    /\ report[r].at = "load" /\ flag \in report[r].left
    /\ report' = [report EXCEPT ![r].left = @ \ {flag},
                                ![r].usb = IF flag = "usb" THEN usbActive ELSE @,
                                ![r].tcp = IF flag = "tcp" THEN tcpActive ELSE @]
    /\ UNCHANGED <<registered, usbHost, usbActive, tcpActive, usbKnown, tcpKnown>>

SetKnown(r) ==
    /\ report[r].at = "load" /\ report[r].left = {}
    /\ usbKnown' = report[r].usb /\ tcpKnown' = report[r].tcp
    /\ report' = [report EXCEPT ![r] = NoReport]
    /\ UNCHANGED <<registered, usbHost, usbActive, tcpActive>>

DestinationsNext ==
    \/ Join \/ Leave \/ UsbSpeaks \/ UsbCallback \/ UsbFails
    \/ \E r \in Reporters :
           StoreFlag(r) \/ SetKnown(r) \/ \E flag \in {"usb", "tcp"} : LoadFlag(r, flag)

DestinationsSpec == DestinationsInit /\ [][DestinationsNext]_destinationVars

-----------------------------------------------------------------------------
(* When nobody reports, the scheduler knows which transports have a host:   *)
(* output is neither dropped beside a connected host nor kept for one that  *)
(* is gone (set_active_destinations).                                       *)
DestinationsAgree ==
    Reporting \/ (usbKnown = (usbHost = "active") /\ tcpKnown = (registered > 0))
=============================================================================
