-------------------------- MODULE HostFileTransfer --------------------------
(***************************************************************************)
(* Arbitration of host file transfers.  Every TCP slot and the USB port    *)
(* owns one transfer runtime (an upload and a download state machine       *)
(* behind a bounded start admission); all of them share one file owner.    *)
(* The runtimes run in different FreeRTOS tasks and the shared owner has   *)
(* no lock, so every action below touches the owner at most once.          *)
(*                                                                         *)
(* The packets of a transfer are abstracted to "it goes on" or "it ends";  *)
(* FileUpload and FileDownload give them their detail.                     *)
(***************************************************************************)
EXTENDS Integers, FiniteSets

CONSTANTS
    MaximumClients,    \* TCP slots (four in the firmware)
    MaximumPending,    \* admitted starts that may wait (four in the firmware)
    OverlappingStarts, \* a start may reach a slot whose last one has not ended
    RacingClaims       \* two tasks may be inside claim_file at the same time

ASSUME ClientsAssumption == MaximumClients \in Nat
ASSUME PendingAssumption == MaximumPending \in Nat \ {0}
ASSUME FlagsAssumption == OverlappingStarts \in BOOLEAN /\ RacingClaims \in BOOLEAN

ClientSlots   == 0..(MaximumClients - 1)
Usb     == MaximumClients
Hosts   == 0..MaximumClients
NoOwner == -1

VARIABLES
    owner,      \* Ownership::file_owner_, NoOwner when empty
    connected,  \* per slot: occupied_tcp_slots and a bound session
    pending,    \* per host: number of FileTransferAdmission::pending_starts_
    active,     \* per host: FileTransferAdmission::active_
    running,    \* per host: upload_.active() or download_.active()
    expired,    \* per host: the inactivity timeout has passed since the last packet
    pc          \* per host: where its task is between two accesses to the owner

vars == <<owner, connected, pending, active, running, expired, pc>>

Steps == {"idle", "claim", "starting", "data"}

TypeOK ==
    /\ owner \in Hosts \union {NoOwner}
    /\ connected \in [ClientSlots -> BOOLEAN]
    /\ pending \in [Hosts -> 0..MaximumPending]
    /\ active \in [Hosts -> BOOLEAN]
    /\ running \in [Hosts -> BOOLEAN]
    /\ expired \in [Hosts -> BOOLEAN]
    /\ pc \in [Hosts -> Steps]

Init ==
    /\ owner = NoOwner
    /\ connected = [s \in ClientSlots |-> FALSE]
    /\ pending = [h \in Hosts |-> 0]
    /\ active = [h \in Hosts |-> FALSE]
    /\ running = [h \in Hosts |-> FALSE]
    /\ expired = [h \in Hosts |-> FALSE]
    /\ pc = [h \in Hosts |-> "idle"]

-----------------------------------------------------------------------------
(* The USB worker runs whether or not a USB host is attached; a slot's task *)
(* runs only while a client is connected.                                   *)
Served(h) == h = Usb \/ (h \in ClientSlots /\ connected[h])

is_file_owner(h) == owner = h

(* claim_file that no longer looks at the present owner.                    *)
may_claim_file_mutant(h) == TRUE

(* The test of claim_file: no owner, or the same logical owner again.       *)
may_claim_file(h) == owner = NoOwner \/ is_file_owner(h)

(* Which owner lets a data packet of h through: the router asks for h       *)
(* itself on TCP, the USB worker only refuses when another host owns.       *)
accepts_data(h) == IF h = Usb THEN may_claim_file(h) ELSE is_file_owner(h)

(* release_if_finished: admission and owner are released together, whoever  *)
(* the owner is at that moment.                                             *)
release_finished(h) ==
    /\ running' = [running EXCEPT ![h] = FALSE]
    /\ expired' = [expired EXCEPT ![h] = FALSE]
    /\ owner' = NoOwner

-----------------------------------------------------------------------------
(* A file_command frame: parse, then the test inside claim_file.  Refusing  *)
(* only answers the host and changes nothing.                               *)
HandleStart(h) ==
    /\ Served(h) /\ pc[h] = "idle"
    /\ OverlappingStarts \/ (~active[h] /\ pending[h] = 0)
    /\ RacingClaims \/ \A g \in Hosts : pc[g] # "claim"
    /\ may_claim_file(h)
    /\ pc' = [pc EXCEPT ![h] = "claim"]
    /\ UNCHANGED <<owner, connected, pending, active, running, expired>>

(* enqueue that admits one start too many.                                  *)
AdmitOneTooMany(h) ==
    /\ pc[h] = "claim"
    /\ owner' = h
    /\ LET begins == ~active[h]
           accepted == pending[h] <= MaximumPending
       IN  /\ pending' = [pending EXCEPT
                              ![h] = IF accepted /\ ~begins THEN @ + 1 ELSE @]
           /\ active' = [active EXCEPT ![h] = TRUE]
           /\ pc' = [pc EXCEPT ![h] = IF begins THEN "starting" ELSE "idle"]
    /\ UNCHANGED <<connected, running, expired>>

(* The assignment inside claim_file, then enqueue, then begin_next when no  *)
(* operation is active.  A full admission drops the start, owner kept.      *)
Admit(h) ==
    /\ pc[h] = "claim"
    /\ owner' = h
    /\ LET accepted == pending[h] < MaximumPending
           begins == accepted /\ ~active[h]
       IN  /\ pending' = [pending EXCEPT
                              ![h] = IF accepted /\ ~begins THEN @ + 1 ELSE @]
           /\ active' = [active EXCEPT ![h] = @ \/ begins]
           /\ pc' = [pc EXCEPT ![h] = IF begins THEN "starting" ELSE "idle"]
    /\ UNCHANGED <<connected, running, expired>>

(* A failed start that finishes the admission but keeps the owner.          *)
BeginNextKeepsOwner(h) ==
    /\ pc[h] = "starting"
    /\ pc' = [pc EXCEPT ![h] = "idle"]
    /\ \/ running' = [running EXCEPT ![h] = TRUE] /\ active' = active
       \/ active' = [active EXCEPT ![h] = FALSE] /\ running' = running
    /\ UNCHANGED <<owner, connected, pending, expired>>

(* FileUpload::start or FileDownload::start returns, having opened its      *)
(* files or failed; a failure finishes the admission and frees the owner.   *)
BeginNext(h) ==
    /\ pc[h] = "starting"
    /\ pc' = [pc EXCEPT ![h] = "idle"]
    /\ \/ /\ running' = [running EXCEPT ![h] = TRUE]
          /\ expired' = [expired EXCEPT ![h] = FALSE]
          /\ UNCHANGED <<owner, active>>
       \/ /\ active' = [active EXCEPT ![h] = FALSE]
          /\ release_finished(h)
    /\ UNCHANGED <<connected, pending>>

(* A file data frame passes the ownership check of the router (TCP) or of   *)
(* handle_usb_file_transfer (USB); without it the frame is dropped.         *)
RouteData(h) ==
    /\ Served(h) /\ pc[h] = "idle"
    /\ accepts_data(h)
    /\ pc' = [pc EXCEPT ![h] = "data"]
    /\ UNCHANGED <<owner, connected, pending, active, running, expired>>

(* The state machine takes the frame; it goes on, or it ends (complete,     *)
(* cancel, abort) and release_if_finished follows.                          *)
HandleData(h) ==
    /\ pc[h] = "data"
    /\ pc' = [pc EXCEPT ![h] = "idle"]
    /\ \/ /\ expired' = [expired EXCEPT ![h] = FALSE]
          /\ UNCHANGED <<owner, active, running>>
       \/ /\ running[h]
          /\ active' = [active EXCEPT ![h] = FALSE]
          /\ release_finished(h)
    /\ UNCHANGED <<connected, pending>>

(* A poll that looks at pending starts only, never at the timeout.          *)
poll_without_timeout(h) ==
    /\ Served(h) /\ pc[h] = "idle" /\ ~active[h] /\ pending[h] # 0
    /\ pending' = [pending EXCEPT ![h] = @ - 1]
    /\ active' = [active EXCEPT ![h] = TRUE]
    /\ pc' = [pc EXCEPT ![h] = "starting"]
    /\ UNCHANGED <<owner, connected, running, expired>>

(* A poll that looks at the timeout only, never at pending starts.          *)
poll_without_pending(h) ==
    /\ Served(h) /\ pc[h] = "idle" /\ running[h]
    /\ release_finished(h)
    /\ active' = [active EXCEPT ![h] = FALSE]
    /\ UNCHANGED <<connected, pending, pc>>

(* What one poll does: a transfer that gives up releases, then the oldest   *)
(* pending start begins when no operation is active, without asking for the *)
(* ownership again.                                                         *)
poll(h) ==
    /\ Served(h) /\ pc[h] = "idle"
    /\ IF running[h] THEN release_finished(h)
                      ELSE /\ ~active[h] /\ pending[h] # 0
                           /\ UNCHANGED <<owner, running, expired>>
    /\ LET begins == pending[h] # 0
       IN  /\ pending' = [pending EXCEPT ![h] = IF begins THEN @ - 1 ELSE @]
           /\ active' = [active EXCEPT ![h] = begins]
           /\ pc' = [pc EXCEPT ![h] = IF begins THEN "starting" ELSE "idle"]
    /\ UNCHANGED connected

(* A poll that finds the inactivity timeout passed, or nothing running.     *)
Poll(h) == (running[h] => expired[h]) /\ poll(h)

(* A poll whose timed retry is one too many ends the transfer earlier.      *)
PollRetryLimit(h) == running[h] /\ ~expired[h] /\ poll(h)

(* tcp_accept_task gives a new client the lowest free slot; its task binds  *)
(* the slot's runtime: a transfer past its timeout is aborted, another one  *)
(* repeats its request.                                                     *)
ConnectSlot(s) ==
    /\ ~connected[s] /\ \A t \in ClientSlots : t < s => connected[t]
    /\ connected' = [connected EXCEPT ![s] = TRUE]
    /\ IF running[s] /\ expired[s]
         THEN /\ active' = [active EXCEPT ![s] = FALSE]
              /\ release_finished(s)
         ELSE UNCHANGED <<owner, active, running, expired>>
    /\ UNCHANGED <<pending, pc>>

(* A disconnect that releases whatever file owner there is.                 *)
DisconnectReleases(s) ==
    /\ connected[s] /\ pc[s] = "idle"
    /\ connected' = [connected EXCEPT ![s] = FALSE]
    /\ owner' = NoOwner
    /\ UNCHANGED <<pending, active, running, expired, pc>>

(* The socket is gone: disconnect() only unbinds it and                     *)
(* transport_disconnected() leaves the file owner alone.                    *)
Disconnect(s) ==
    /\ connected[s] /\ pc[s] = "idle"
    /\ connected' = [connected EXCEPT ![s] = FALSE]
    /\ UNCHANGED <<owner, pending, active, running, expired, pc>>

(* Nine seconds pass without a packet.                                      *)
Expire(h) ==
    /\ running[h] /\ ~expired[h]
    /\ expired' = [expired EXCEPT ![h] = TRUE]
    /\ UNCHANGED <<owner, connected, pending, active, running, pc>>

Next ==
    \/ \E h \in Hosts :
          \/ HandleStart(h) \/ Admit(h) \/ BeginNext(h)
          \/ RouteData(h) \/ HandleData(h)
          \/ Poll(h) \/ PollRetryLimit(h) \/ Expire(h)
    \/ \E s \in ClientSlots : ConnectSlot(s) \/ Disconnect(s)

Spec == Init /\ [][Next]_vars

(* Tasks finish what they began, time passes, and a connected client (or    *)
(* the USB port) is silent for one poll interval again and again.  Nothing  *)
(* obliges a client to connect, to stay or to send anything.                *)
Fairness ==
    \A h \in Hosts :
        /\ WF_vars(Admit(h)) /\ WF_vars(BeginNext(h)) /\ WF_vars(HandleData(h))
        /\ WF_vars(Expire(h)) /\ SF_vars(Poll(h))

FairSpec == Spec /\ Fairness

-----------------------------------------------------------------------------
(* Ownership is never stranded: whoever owns the file channel has an        *)
(* operation that is active or waiting, whose end releases it (claim_file,  *)
(* enqueue and begin_next against every release_file).                      *)
OwnershipBacked == \A h \in Hosts : owner = h => active[h] \/ pending[h] # 0

(* The promise of file_owner_limit_message, "Other client is currently      *)
(* uploading/downloading files": two hosts never transfer at the same time. *)
OneTransfer == \A g, h \in Hosts : running[g] /\ running[h] => g = h

(* A running transfer's host is the registered owner, so its packets are    *)
(* routed to it.                                                            *)
TransferHasOwner == \A h \in Hosts : running[h] => owner = h

(* "Releases file ownership after a protocol terminal event": ownership     *)
(* leaves a host only with the end of that host's own operation.            *)
ReleasedByOwner ==
    [][\A h \in Hosts : owner = h /\ owner' # h => active[h] /\ ~active'[h]]_vars

(* A transfer past its inactivity timeout on a served runtime ends, or is   *)
(* revived by a packet, or its client leaves.                               *)
ExpiredIsReaped ==
    \A h \in Hosts :
        running[h] /\ expired[h] /\ Served(h)
            ~> ~running[h] \/ ~expired[h] \/ ~Served(h)

(* An admitted start begins once the operation before it is over, unless    *)
(* its client leaves.                                                       *)
PendingStarts ==
    \A h \in Hosts :
        pending[h] # 0 /\ ~active[h] /\ Served(h) ~> active[h] \/ ~Served(h)

(* disconnect(): ownership survives "until normal completion, cancellation, *)
(* protocol abort, or inactivity timeout": an abandoned transfer gives the  *)
(* file channel back.                                                       *)
AbandonedIsReleased ==
    \A s \in ClientSlots : owner = s /\ ~connected[s] ~> owner # s \/ connected[s]
=============================================================================
