------------------------------- MODULE SdCard -------------------------------
(***************************************************************************)
(* The SD card monitor.  Its task samples the card-detect pin, mounts a    *)
(* card when it has settled in its slot and unmounts it when it is gone;   *)
(* the diagnostic log has its file on the card and is opened and closed    *)
(* with it.  Log records are captured by every task and written by the     *)
(* monitor, which rotates the file when it is full.                        *)
(*                                                                         *)
(* A poll is one step.  Its clock is left out: a poll comes with the next  *)
(* sample due or before, and a mount that waits for its delay is due in a  *)
(* later poll.                                                             *)
(***************************************************************************)
EXTENDS Naturals, Sequences

CONSTANTS
    Cards,
    NoCard,
    Required,        \* required_different_samples
    MaxRecords,      \* maximum_pending_records
    LogLimit,        \* rotation_size_limit, in records
    QuickRemovals,   \* a card is removed before the monitor has settled on it
    SdFaults         \* what may fail: "mount", "unmount", "open", "rename"

ASSUME SdAssumption ==
    /\ NoCard \notin Cards /\ Required \in Nat \ {0} /\ MaxRecords \in Nat \ {0}
    /\ LogLimit \in Nat \ {0} /\ QuickRemovals \in BOOLEAN

VARIABLES
    card,       \* the card in the slot
    handle,     \* card_: the card that is mounted
    storage,    \* what set_sd_storage_mounted published
    mounted,    \* mounted_
    running,    \* started_
    settled,    \* settled_inserted_
    differing,  \* different_sample_count_
    mountDue,   \* mount_pending_
    writing,    \* active_ of the log writer
    logFile,    \* file_: the card it is on
    logSize,    \* tracked_size_
    captured,   \* pending_ of the capture: the card mounted then
    absent,     \* samples in a row without a card
    gap         \* what absent was at the last removal

sdVars == <<card, handle, storage, mounted, running, settled, differing, mountDue, writing,
            logFile, logSize, captured, absent, gap>>

SdTypeOK ==
    /\ {card, handle, logFile} \subseteq Cards \cup {NoCard}
    /\ {storage, mounted, running, settled, mountDue, writing} \subseteq BOOLEAN
    /\ differing \in 0..Required - 1 /\ logSize \in 0..LogLimit
    /\ captured \in Seq(Cards \cup {NoCard}) /\ Len(captured) <= MaxRecords
    /\ absent \in 0..Required /\ gap \in 0..Required

SdInit ==
    /\ card \in Cards \cup {NoCard} /\ handle = NoCard
    /\ storage = FALSE /\ mounted = FALSE /\ running = FALSE /\ settled = FALSE
    /\ differing = 0 /\ mountDue = FALSE /\ writing = FALSE /\ logFile = NoCard
    /\ logSize = 0 /\ captured = <<>> /\ absent = 0 /\ gap = Required

(* The monitor's state that mounting, unmounting and logging change.        *)
state == [handle |-> handle, storage |-> storage, mounted |-> mounted, writing |-> writing,
          logFile |-> logFile, logSize |-> logSize, captured |-> captured, gap |-> gap]

Take(s) ==
    /\ handle' = s.handle /\ storage' = s.storage /\ mounted' = s.mounted
    /\ writing' = s.writing /\ logFile' = s.logFile /\ logSize' = s.logSize
    /\ captured' = s.captured /\ gap' = s.gap

-----------------------------------------------------------------------------
(* open_session; a file is empty or has what was logged to it earlier.      *)
Outcomes(fault) == IF fault \in SdFaults THEN BOOLEAN ELSE {TRUE}

LogOpened(s, ok, size) ==
    IF ok THEN [s EXCEPT !.writing = TRUE, !.logFile = s.handle, !.logSize = size]
    ELSE [s EXCEPT !.writing = FALSE, !.logFile = NoCard]

start_logging(s, ok, size) == IF s.writing THEN s ELSE LogOpened(s, ok, size)

(* flush_and_close, and what is still captured is thrown away.              *)
stop_and_drain_logging(s) ==
    [s EXCEPT !.writing = FALSE, !.logFile = IF s.writing THEN NoCard ELSE s.logFile,
              !.captured = <<>>]

(* mount: a card that is mounted already stays so.                          *)
Mounts(s, ok) ==
    IF s.handle # NoCard THEN [s EXCEPT !.storage = TRUE]
    ELSE IF ok /\ card # NoCard THEN [s EXCEPT !.handle = card, !.storage = TRUE]
    ELSE [s EXCEPT !.storage = FALSE]

attempt_mount(s, ok, log, size) ==
    LET m == Mounts(s, ok)
    IN  IF m.storage THEN start_logging([m EXCEPT !.mounted = TRUE], log, size) ELSE m

(* accept_removal: the log is closed before the card is unmounted.  The     *)
(* mutant leaves it open.                                                   *)
accept_removal_logging(s, ok) ==
    IF s.mounted /\ ok
    THEN [s EXCEPT !.handle = NoCard, !.storage = FALSE, !.mounted = FALSE, !.gap = absent']
    ELSE s

accept_removal(s, ok) ==
    IF ~s.mounted THEN s
    ELSE LET quiet == stop_and_drain_logging(s)
         IN  IF ok THEN [quiet EXCEPT !.handle = NoCard, !.storage = FALSE, !.mounted = FALSE,
                                      !.gap = absent']
             ELSE quiet

-----------------------------------------------------------------------------
(* mount_for_boot, before the task runs.                                    *)
MountForBoot ==
    /\ ~running /\ card # NoCard /\ handle = NoCard
    /\ \E ok \in Outcomes("mount"), log \in Outcomes("open"), size \in 0..LogLimit :
          Take(LET m == Mounts(state, ok)
               IN  IF m.storage THEN start_logging(m, log, size) ELSE m)
    /\ UNCHANGED <<card, running, settled, differing, mountDue, absent>>

(* SdCardLifecycle::start.                                                  *)
StartMonitor ==
    /\ ~running /\ running' = TRUE
    /\ settled' = FALSE /\ differing' = 0 /\ mountDue' = FALSE
    /\ \E ok \in Outcomes("mount"), log \in Outcomes("open"), size \in 0..LogLimit :
          Take(IF card # NoCard THEN attempt_mount([state EXCEPT !.mounted = FALSE], ok, log, size)
               ELSE [state EXCEPT !.mounted = FALSE])
    /\ UNCHANGED <<card, absent>>

(* poll: a mount that is due.                                               *)
PollMounts ==
    /\ running /\ mountDue /\ mountDue' = FALSE
    /\ \E ok \in Outcomes("mount"), log \in Outcomes("open"), size \in 0..LogLimit :
          Take(IF mounted THEN state ELSE attempt_mount(state, ok, log, size))
    /\ UNCHANGED <<card, running, settled, differing, absent>>

(* poll: a sample.                                                          *)
Inserted == card # NoCard
Counted == IF absent < Required THEN absent + 1 ELSE absent

SampleAgrees ==
    /\ running /\ Inserted = settled /\ differing' = 0
    /\ absent' = IF Inserted THEN 0 ELSE Counted
    /\ UNCHANGED <<card, handle, storage, mounted, running, settled, mountDue, writing, logFile,
                   logSize, captured, gap>>

SampleDiffers ==
    /\ running /\ Inserted # settled /\ differing + 1 < Required
    /\ differing' = differing + 1
    /\ absent' = IF Inserted THEN 0 ELSE Counted
    /\ UNCHANGED <<card, handle, storage, mounted, running, settled, mountDue, writing, logFile,
                   logSize, captured, gap>>

SampleSettles ==
    /\ running /\ Inserted # settled /\ differing + 1 >= Required
    /\ settled' = Inserted /\ differing' = 0 /\ mountDue' = Inserted
    /\ absent' = IF Inserted THEN 0 ELSE Counted
    /\ IF Inserted THEN Take(state)
       ELSE \E ok \in Outcomes("unmount") : Take(accept_removal(state, ok))
    /\ UNCHANGED <<card, running>>

-----------------------------------------------------------------------------
(* capture, by any task, and drain_captured_records, after each poll.       *)
Capture ==
    /\ Len(captured) < MaxRecords /\ captured' = Append(captured, handle)
    /\ UNCHANGED <<card, handle, storage, mounted, running, settled, differing, mountDue, writing,
                   logFile, logSize, absent, gap>>

(* write_record, with rotate when the file is full: the file is renamed     *)
(* away, and the log stops when no new one can be opened.                   *)
DrainRecord ==
    /\ running /\ captured # <<>> /\ captured' = Tail(captured)
    /\ \/ ~writing /\ UNCHANGED <<writing, logFile, logSize>>
       \/ /\ writing /\ logSize < LogLimit /\ logSize' = logSize + 1
          /\ UNCHANGED <<writing, logFile>>
       \/ /\ writing /\ logSize = LogLimit
          /\ \E renamed \in Outcomes("rename"), log \in Outcomes("open") :
                /\ writing' = log /\ logFile' = IF log THEN logFile ELSE NoCard
                /\ logSize' = IF log /\ renamed THEN 1 ELSE logSize
    /\ UNCHANGED <<card, handle, storage, mounted, running, settled, differing, mountDue, absent,
                   gap>>

PutIn(c) ==
    /\ card = NoCard /\ card' = c
    /\ UNCHANGED <<handle, storage, mounted, running, settled, differing, mountDue, writing,
                   logFile, logSize, captured, absent, gap>>

TakeOut ==
    /\ card # NoCard /\ (QuickRemovals \/ settled) /\ card' = NoCard
    /\ UNCHANGED <<handle, storage, mounted, running, settled, differing, mountDue, writing,
                   logFile, logSize, captured, absent, gap>>

SdNext ==
    \/ MountForBoot \/ StartMonitor \/ PollMounts
    \/ SampleAgrees \/ SampleDiffers \/ SampleSettles
    \/ Capture \/ DrainRecord \/ TakeOut
    \/ \E c \in Cards : PutIn(c)

SdSpec == SdInit /\ [][SdNext]_sdVars

-----------------------------------------------------------------------------
(* The log's file is open while it is written and only on a card that is    *)
(* mounted (stop_and_drain_logging before unmount), which is also what the  *)
(* other parts of the firmware are told (set_sd_storage_mounted).           *)
LogOnMountedCard ==
    /\ writing = (logFile # NoCard)
    /\ logFile # NoCard => logFile = handle
    /\ storage = (handle # NoCard)
    /\ mounted => handle # NoCard

(* A card is unmounted when enough samples in a row have missed it, not for *)
(* a shorter glitch, and then it is (poll, accept_removal).                 *)
RemovalIsDebounced ==
    /\ gap = Required
    /\ absent = Required => ~mounted

(* The card and its log are in step with the slot.                          *)
SdCardServes == LogOnMountedCard /\ RemovalIsDebounced
=============================================================================
