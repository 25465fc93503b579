--------------------------- MODULE FirmwareUpdate ---------------------------
(***************************************************************************)
(* The firmware update: a package on the SD card is loaded, its mainboard  *)
(* image is written to the inactive partition and selected for boot, its   *)
(* controller image is staged as a file, and the motion controller is      *)
(* reset until it has fetched that file.  Power may go between any two     *)
(* effects that last.  Four tasks are involved: the update task, the       *)
(* monitor that resets the controller, the task that serves the            *)
(* controller's transfer, and the web server with its own direct update.   *)
(*                                                                         *)
(* An image is the number of the package it comes from, 0 for the one the  *)
(* machine was built with, Web for one uploaded to the web server.         *)
(***************************************************************************)
EXTENDS Integers, Sequences

CONSTANTS
    Kinds,                \* packages a host may upload
    Blocks,               \* blocks of a whole controller image
    MaxUploads,           \* bound: packages uploaded
    MaxDisturbances,      \* bound: power losses, cancels, commands, web updates
    UploadDuringUpdate,   \* a host may replace the package while it is processed
    StageDuringTransfer,  \* the controller may fetch while an image is staged
    WebDuringUpdate,      \* the web update and the update task may overlap
    Faults                \* faults that may happen

AllKinds  == {"main", "controller", "both", "empty", "bad"}
AllFaults == {"nvs", "load", "ota", "stage", "delete", "read", "send"}

ASSUME KindsAssumption == Kinds \subseteq AllKinds
ASSUME BoundsAssumption ==
    Blocks \in Nat \ {0} /\ MaxUploads \in Nat /\ MaxDisturbances \in Nat
ASSUME FlagsAssumption ==
    /\ UploadDuringUpdate \in BOOLEAN /\ StageDuringTransfer \in BOOLEAN
    /\ WebDuringUpdate \in BOOLEAN /\ Faults \subseteq AllFaults

Torn    == -1
Absent  == -2
Web     == MaxUploads + 1
Images  == {Torn} \union 0..Web
Partitions == {0, 1}
NoPackage  == [image |-> 0, kind |-> "none"]

VARIABLES
    aggregate,    \* /firmware.bin: NoPackage when there is none
    uploads,      \* packages uploaded so far
    partition,    \* image in each application partition
    boot,         \* partition selected for the next boot
    staged,       \* /lpc1768.bin: Absent, Torn or an image
    phase,        \* persisted update phase
    running,      \* partition the machine was booted from
    requested,    \* update_requested
    pc,           \* where the update task is
    package,      \* package it has loaded
    status,       \* update phase shown to hosts
    timer,        \* the timer that ends the display of success runs
    active,       \* active_ of the controller's firmware transfer
    waiting,      \* waiting_
    web,          \* where the web server's direct update is
    controller,   \* the controller: mode, its program, blocks expected and got
    disturbances  \* how many of these so far

card    == <<aggregate, uploads>>
flash   == <<partition, boot, running>>
task    == <<requested, pc, package>>
display == <<status, timer>>
transfer == <<active, waiting>>
vars == <<card, flash, staged, phase, task, display, transfer, web, controller,
          disturbances>>

Modes == {"run", "ask", "layout", "load", "done"}
Steps == {"boot", "idle", "load", "reject", "publish", "begin", "write", "finalize",
          "select", "fail", "stage", "copy", "persist", "remove", "reset", "restart"}

TypeOK ==
    /\ aggregate \in {NoPackage} \union [image : 1..MaxUploads, kind : Kinds]
    /\ package \in {NoPackage} \union [image : 1..MaxUploads, kind : Kinds]
    /\ uploads \in 0..MaxUploads
    /\ partition \in [Partitions -> Images]
    /\ boot \in Partitions /\ running \in Partitions
    /\ staged \in {Absent} \union Images
    /\ phase \in 0..4 /\ status \in 0..4 /\ timer \in BOOLEAN
    /\ requested \in BOOLEAN /\ pc \in Steps
    /\ active \in BOOLEAN /\ waiting \in BOOLEAN
    /\ web \in {"idle", "receiving", "written", "restart"}
    /\ controller \in [mode : Modes, program : Images, count : 0..Blocks, got : Seq(Images)]
    /\ Len(controller.got) <= controller.count
    /\ disturbances \in 0..MaxDisturbances

Init ==
    /\ aggregate = NoPackage /\ uploads = 0
    /\ partition = [p \in Partitions |-> 0] /\ boot = 0 /\ running = 0
    /\ staged = Absent /\ phase = 0
    /\ requested = TRUE /\ pc = "boot" /\ package = NoPackage
    /\ status = 0 /\ timer = FALSE /\ active = FALSE /\ waiting = FALSE /\ web = "idle"
    /\ controller = [mode |-> "ask", program |-> 0, count |-> 0, got |-> <<>>]
    /\ disturbances = 0

HasMain(k)       == k \in {"main", "both"}
HasController(k) == k \in {"controller", "both"}
Inactive == 1 - running

(* persist_update_phase: a failure leaves the old phase and is ignored.     *)
persist_update_phase(n) ==
    \/ phase' = n
    \/ "nvs" \in Faults /\ phase' = phase

(* What a reset does to the controller: it asks for firmware from the start *)
(* of the exchange.                                                         *)
ControllerReset == [controller EXCEPT !.mode = "ask", !.count = 0, !.got = <<>>]

-----------------------------------------------------------------------------
(* Hosts.                                                                   *)

(* An upload ends: FileUpload renames the finished file to /firmware.bin.   *)
Upload(k) ==
    /\ uploads < MaxUploads /\ (UploadDuringUpdate \/ pc = "idle")
    /\ uploads' = uploads + 1
    /\ aggregate' = [image |-> uploads + 1, kind |-> k]
    /\ UNCHANGED <<flash, staged, phase, task, display, transfer, web, controller,
                   disturbances>>

(* An upgrade or reset command; requests that wait coalesce.                *)
Request ==
    /\ disturbances < MaxDisturbances /\ disturbances' = disturbances + 1
    /\ requested' = TRUE
    /\ UNCHANGED <<card, flash, staged, phase, pc, package, display, transfer, web,
                   controller>>

-----------------------------------------------------------------------------
(* The update task.  Rest is what no step of it but the named ones changes. *)
Rest == UNCHANGED <<uploads, running, timer, transfer, web, disturbances>>

(* After one second: a persisted success is cleared, other phases are only  *)
(* reported.                                                                *)
Boot ==
    /\ pc = "boot" /\ pc' = "idle"
    /\ IF phase = 4 THEN persist_update_phase(0) ELSE phase' = phase
    /\ Rest
    /\ UNCHANGED <<aggregate, partition, boot, staged, requested, package, status, controller>>

Take ==
    /\ pc = "idle" /\ requested /\ (WebDuringUpdate \/ web = "idle")
    /\ requested' = FALSE /\ pc' = "load"
    /\ Rest
    /\ UNCHANGED <<aggregate, partition, boot, staged, phase, package, status, controller>>

(* Without a package the request is passed on as a controller reset, which  *)
(* a full queue refuses.                                                    *)
LoadAbsent ==
    /\ pc = "load" /\ aggregate = NoPackage
    /\ pc' = "idle"
    /\ controller' = ControllerReset \/ ("send" \in Faults /\ controller' = controller)
    /\ Rest
    /\ UNCHANGED <<aggregate, partition, boot, staged, phase, requested, package, status>>

(* load_aggregate and aggregate_opened, then validation.  A package that    *)
(* finds no memory stays; one that is short or invalid is removed.          *)
Load ==
    /\ pc = "load" /\ aggregate # NoPackage
    /\ status' = 0 /\ persist_update_phase(0)
    /\ \/ /\ package' = aggregate
          /\ pc' = CASE aggregate.kind = "bad"   -> "reject"
                     [] HasMain(aggregate.kind) -> "publish"
                     [] OTHER                   -> "stage"
       \/ "load" \in Faults /\ pc' \in {"idle", "reject"} /\ package' = package
    /\ Rest
    /\ UNCHANGED <<aggregate, partition, boot, staged, requested, controller>>

Reject ==
    /\ pc = "reject" /\ pc' = "idle"
    /\ aggregate' = NoPackage \/ ("delete" \in Faults /\ aggregate' = aggregate)
    /\ Rest
    /\ UNCHANGED <<partition, boot, staged, phase, requested, package, status, controller>>

PublishMain ==
    /\ pc = "publish" /\ pc' = "begin"
    /\ status' = 1 /\ persist_update_phase(1)
    /\ Rest
    /\ UNCHANGED <<aggregate, partition, boot, staged, requested, package, controller>>

(* What every OTA operation leaves alone; each may fail.                    *)
Ota(from) ==
    /\ pc = from
    /\ Rest
    /\ UNCHANGED <<aggregate, staged, phase, requested, package, status, controller>>
OtaFails(from) ==
    /\ Ota(from) /\ "ota" \in Faults /\ pc' = "fail"
    /\ UNCHANGED <<partition, boot>>

(* Mutant: the partition that runs is erased.                               *)
OtaBeginOverRunning ==
    /\ Ota("begin") /\ pc' = "write"
    /\ partition' = [partition EXCEPT ![running] = Torn] /\ boot' = boot

(* The inactive partition is selected and erased.                           *)
OtaBegin ==
    /\ Ota("begin") /\ pc' = "write"
    /\ partition' = [partition EXCEPT ![Inactive] = Torn] /\ boot' = boot

OtaWrite ==
    /\ Ota("write") /\ pc' = "finalize"
    /\ partition' = [partition EXCEPT ![Inactive] = package.image] /\ boot' = boot

(* esp_ota_end and esp_ota_set_boot_partition refuse an image that is not   *)
(* whole.                                                                   *)
OtaFinalize ==
    /\ Ota("finalize") /\ UNCHANGED <<partition, boot>>
    /\ pc' = IF partition[Inactive] # Torn THEN "select" ELSE "fail"

(* Mutant: the update goes on as if there were nothing to stage.            *)
OtaSelectSkipsStaging ==
    /\ Ota("select") /\ UNCHANGED partition
    /\ boot' = Inactive /\ pc' = "persist"

OtaSelect ==
    /\ Ota("select") /\ UNCHANGED partition
    /\ IF partition[Inactive] # Torn THEN boot' = Inactive /\ pc' = "stage"
                                     ELSE boot' = boot /\ pc' = "fail"

(* fail_mainboard: the failure is published; the package stays.             *)
FailMainboard ==
    /\ pc = "fail" /\ pc' = "idle"
    /\ status' = 3 /\ persist_update_phase(3)
    /\ Rest
    /\ UNCHANGED <<aggregate, partition, boot, staged, requested, package, controller>>

AfterStaging == IF HasMain(package.kind) THEN "persist" ELSE "remove"

(* stage_controller truncates the staged file ...                           *)
StageOpen ==
    /\ pc = "stage" /\ (StageDuringTransfer \/ controller.mode \in {"run", "ask"})
    /\ IF ~HasController(package.kind) THEN staged' = staged /\ pc' = AfterStaging
       ELSE \/ staged' = Torn /\ pc' = "copy"
            \/ "stage" \in Faults /\ staged' = staged /\ pc' = AfterStaging
    /\ Rest
    /\ UNCHANGED <<aggregate, partition, boot, phase, requested, package, status, controller>>

(* ... and writes it; results are not looked at.                            *)
StageCopy ==
    /\ pc = "copy" /\ pc' = AfterStaging
    /\ staged' = package.image \/ ("stage" \in Faults /\ staged' = staged)
    /\ Rest
    /\ UNCHANGED <<aggregate, partition, boot, phase, requested, package, status, controller>>

(* Mutant: restarts with the package still there.                           *)
PersistControllerKeepsPackage ==
    /\ pc = "persist" /\ pc' = "restart"
    /\ status' = 2 /\ persist_update_phase(2)
    /\ Rest
    /\ UNCHANGED <<aggregate, partition, boot, staged, requested, package, controller>>

(* Phase two is persisted whether or not there is a controller image.       *)
PersistController ==
    /\ pc = "persist" /\ pc' = "remove"
    /\ status' = 2 /\ persist_update_phase(2)
    /\ Rest
    /\ UNCHANGED <<aggregate, partition, boot, staged, requested, package, controller>>

(* UpdateDeletionService::remove after its attempts; whatever file is there *)
(* now.                                                                     *)
Remove ==
    /\ pc = "remove" /\ pc' = IF HasMain(package.kind) THEN "restart" ELSE "reset"
    /\ aggregate' = NoPackage \/ ("delete" \in Faults /\ aggregate' = aggregate)
    /\ Rest
    /\ UNCHANGED <<partition, boot, staged, phase, requested, package, status, controller>>

SendReset ==
    /\ pc = "reset" /\ pc' = "idle"
    /\ controller' = ControllerReset \/ ("send" \in Faults /\ controller' = controller)
    /\ Rest
    /\ UNCHANGED <<aggregate, partition, boot, staged, phase, requested, package, status>>

(* What a restart leaves: the boot loader takes the selected image, or the  *)
(* other one when that is not whole; boot requests one processing.          *)
Restarted ==
    /\ running' = IF partition[boot] # Torn THEN boot ELSE 1 - boot
    /\ requested' = TRUE /\ pc' = "boot" /\ package' = NoPackage
    /\ status' = 0 /\ timer' = FALSE /\ active' = FALSE /\ waiting' = FALSE /\ web' = "idle"
    /\ UNCHANGED <<card, partition, boot, staged, phase>>

Restart ==
    /\ pc = "restart" /\ Restarted
    /\ UNCHANGED <<controller, disturbances>>

PowerLoss ==
    /\ disturbances < MaxDisturbances /\ disturbances' = disturbances + 1
    /\ Restarted /\ controller' = ControllerReset

-----------------------------------------------------------------------------
(* Mutant: the monitor waits for a transfer instead of for idle channels.   *)
MonitorTickInverted ==
    /\ staged # Absent /\ active
    /\ controller' = ControllerReset
    /\ UNCHANGED <<card, flash, staged, phase, task, display, transfer, web, disturbances>>

(* The monitor's check, every five seconds and at once after a boot.  The   *)
(* other two transfer channels are idle when it takes place.                *)
MonitorTick ==
    /\ staged # Absent /\ ~active
    /\ controller' = ControllerReset
    /\ UNCHANGED <<card, flash, staged, phase, task, display, transfer, web, disturbances>>

(* The controller's transfer.  A frame is handled when it is taken from its *)
(* inbox; the controller waits for the reply before it goes on.             *)
Frame(mode) ==
    /\ controller.mode = mode
    /\ UNCHANGED <<card, flash, phase, task, web>>

(* publish_controller_transfer_status.                                      *)
Publish(n) == status' = n /\ timer' = (n = 4)

HandleStart ==
    /\ Frame("ask") /\ (StageDuringTransfer \/ pc # "copy")
    /\ IF staged = Absent
         THEN /\ active' = FALSE /\ waiting' = FALSE
              /\ controller' = [controller EXCEPT !.mode = "run"]
              /\ UNCHANGED display
         ELSE /\ active' = TRUE /\ waiting' = TRUE /\ Publish(2)
              /\ \/ controller' = [controller EXCEPT !.mode = "layout"]
                 \/ "send" \in Faults /\ controller' = controller
    /\ UNCHANGED <<staged, disturbances>>

(* report_error: the controller is told to cancel, and active_ stays.       *)
ReportError ==
    /\ Publish(3)
    /\ controller' = [controller EXCEPT !.mode = "run", !.got = <<>>]
    /\ UNCHANGED active

(* The file is as long as it is now, a torn one of any length.              *)
HandleGeometry ==
    /\ Frame("layout")
    /\ waiting' = (active \/ waiting)
    /\ \/ /\ staged # Absent /\ UNCHANGED <<active, display>>
          /\ \E n \in IF staged = Torn THEN 0..Blocks ELSE {Blocks} :
                controller' = [controller EXCEPT !.mode = "load", !.count = n]
       \/ (staged = Absent \/ "read" \in Faults \/ "send" \in Faults) /\ ReportError
    /\ UNCHANGED <<staged, disturbances>>

(* Mutant: data goes on past the last block.                                *)
HandleDataOverrun ==
    /\ Frame("load")
    /\ Publish(2) /\ UNCHANGED active
    /\ controller' = [controller EXCEPT !.got = Append(@, staged)]
    /\ waiting' = FALSE
    /\ UNCHANGED <<staged, disturbances>>

(* Each block is read from the file as it is now.                           *)
HandleData ==
    /\ Frame("load") /\ Len(controller.got) < controller.count
    /\ waiting' = (waiting /\ ~active)
    /\ \/ /\ staged # Absent /\ Publish(2) /\ UNCHANGED active
          /\ controller' = [controller EXCEPT !.got = Append(@, staged)]
       \/ (staged = Absent \/ "read" \in Faults) /\ ReportError
       \/ /\ "send" \in Faults /\ Publish(2) /\ UNCHANGED active
          /\ controller' = [controller EXCEPT !.mode = "run", !.got = <<>>]
    /\ UNCHANGED <<staged, disturbances>>

(* The controller has all blocks and programs them.                         *)
Program ==
    /\ controller.mode = "load" /\ Len(controller.got) = controller.count
    /\ controller' = [controller EXCEPT !.mode = "done", !.program =
          IF controller.count = Blocks /\ \A i \in 1..Blocks : controller.got[i] = controller.got[1]
            THEN controller.got[1] ELSE Torn]
    /\ UNCHANGED <<card, flash, staged, phase, task, display, transfer, web, disturbances>>

(* complete: the staged file is removed, whichever it is by then.  Nothing  *)
(* is persisted.                                                            *)
HandleComplete ==
    /\ Frame("done") /\ controller' = [controller EXCEPT !.mode = "run"]
    /\ active' = FALSE /\ waiting' = FALSE /\ Publish(4)
    /\ staged' = Absent \/ ("delete" \in Faults /\ staged' = staged)
    /\ UNCHANGED disturbances

(* Mutant: a cancelled transfer removes the staged file too.                *)
HandleCancelRemoves ==
    /\ controller.mode \in {"layout", "load"}
    /\ disturbances < MaxDisturbances /\ disturbances' = disturbances + 1
    /\ controller' = [controller EXCEPT !.mode = "run", !.count = 0, !.got = <<>>]
    /\ active' = FALSE /\ waiting' = FALSE /\ Publish(3) /\ staged' = Absent
    /\ UNCHANGED <<card, flash, phase, task, web>>

HandleCancel ==
    /\ controller.mode \in {"layout", "load"}
    /\ disturbances < MaxDisturbances /\ disturbances' = disturbances + 1
    /\ controller' = [controller EXCEPT !.mode = "run", !.count = 0, !.got = <<>>]
    /\ active' = FALSE /\ waiting' = FALSE /\ Publish(3)
    /\ UNCHANGED <<card, flash, staged, phase, task, web>>

(* A frame of an unknown operation: the only one after which the timeout of *)
(* a waiting transfer can be found to have passed.                          *)
HandleTimeout ==
    /\ active /\ waiting
    /\ disturbances < MaxDisturbances /\ disturbances' = disturbances + 1
    /\ active' = FALSE /\ waiting' = FALSE /\ Publish(3)
    /\ UNCHANGED <<card, flash, staged, phase, task, web, controller>>

(* Three seconds after a success, whatever is shown by then.                *)
SuccessShown ==
    /\ timer /\ timer' = FALSE /\ status' = 0
    /\ UNCHANGED <<card, flash, staged, phase, task, transfer, web, controller, disturbances>>

-----------------------------------------------------------------------------
(* The web server's direct update.                                          *)
WebStep ==
    UNCHANGED <<card, running, staged, phase, task, display, transfer, controller>>

WebBegin ==
    /\ web = "idle" /\ (WebDuringUpdate \/ pc = "idle")
    /\ disturbances < MaxDisturbances /\ disturbances' = disturbances + 1
    /\ web' = "receiving"
    /\ partition' = [partition EXCEPT ![Inactive] = Torn] /\ boot' = boot
    /\ WebStep

(* Blocks are offered as they come; a failed write is found by the end.     *)
WebWrite ==
    /\ web = "receiving" /\ web' = "written"
    /\ \E v \in {Torn, Web} : partition' = [partition EXCEPT ![Inactive] = v]
    /\ boot' = boot /\ WebStep /\ UNCHANGED disturbances

(* A request that breaks off leaves the partition as it is.                 *)
WebFails ==
    /\ web \in {"receiving", "written"} /\ web' = "idle"
    /\ UNCHANGED <<partition, boot>> /\ WebStep /\ UNCHANGED disturbances

WebFinish ==
    /\ web = "written" /\ partition[Inactive] # Torn
    /\ web' = "restart" /\ boot' = Inactive /\ partition' = partition
    /\ WebStep /\ UNCHANGED disturbances

WebRestart ==
    /\ web = "restart" /\ Restarted
    /\ UNCHANGED <<controller, disturbances>>

Update ==
    \/ Boot \/ Take \/ LoadAbsent \/ Load \/ Reject \/ PublishMain
    \/ OtaBegin \/ OtaWrite \/ OtaFinalize \/ OtaSelect
    \/ \E s \in {"begin", "write", "finalize", "select"} : OtaFails(s)
    \/ FailMainboard \/ StageOpen \/ StageCopy \/ PersistController
    \/ Remove \/ SendReset \/ Restart

Transfer ==
    HandleStart \/ HandleGeometry \/ HandleData \/ Program \/ HandleComplete

Next ==
    \/ \E k \in Kinds : Upload(k)
    \/ Request \/ PowerLoss \/ Update \/ MonitorTick
    \/ Transfer \/ HandleCancel \/ HandleTimeout \/ SuccessShown
    \/ WebBegin \/ WebWrite \/ WebFails \/ WebFinish \/ WebRestart

Spec == Init /\ [][Next]_vars

(* The tasks run on, the monitor keeps checking, a request to the web       *)
(* server ends, and the controller goes on with an exchange it has begun.   *)
Fairness ==
    /\ WF_vars(Update) /\ SF_vars(Take) /\ WF_vars(MonitorTick) /\ WF_vars(Transfer)
    /\ WF_vars(WebFails) /\ WF_vars(WebRestart)

FairSpec == Spec /\ Fairness

-----------------------------------------------------------------------------
(* The partition selected for the next boot always holds a whole image:     *)
(* begin, write, finalize and select keep their order and their partition   *)
(* across failures, retries, power loss and the web server's update.        *)
BootImageWhole == partition[boot] # Torn

(* Whatever overlaps, there is a whole image to boot from: the one that     *)
(* runs is never written to.                                                *)
RunningImageWhole == partition[running] # Torn

(* A whole controller image leaves the card only when the controller has    *)
(* programmed it: no failure, cancel, reset or power loss gives it up.      *)
StagedIsDelivered ==
    [][(staged \in 0..Web /\ staged' = Absent) => controller.program = staged]_vars

(* A good package leaves the card only when its mainboard image is selected *)
(* for boot and its controller image is staged, or already programmed.      *)
AggregateIsApplied ==
    [][(aggregate.kind \notin {"none", "bad"} /\ aggregate' = NoPackage) =>
          /\ HasMain(aggregate.kind) => partition[boot] = aggregate.image
          /\ HasController(aggregate.kind) =>
                aggregate.image \in {staged, controller.program}]_vars

(* A package that was asked to be processed is used up, unless its          *)
(* mainboard image cannot be written: no loop of restarts keeps it.         *)
AggregateIsConsumed ==
    \A n \in 1..MaxUploads :
        aggregate.image = n /\ requested ~> aggregate.image # n \/ pc = "fail"

(* A staged image is fetched in the end: cancels, timeouts, commands and    *)
(* restarts do not leave the monitor waiting for a transfer that is over.   *)
StagedIsFetched == staged # Absent ~> staged = Absent
=============================================================================
