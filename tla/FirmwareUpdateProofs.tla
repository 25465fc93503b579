------------------------ MODULE FirmwareUpdateProofs ------------------------
(***************************************************************************)
(* Proofs about FirmwareUpdate, for every choice of packages, bounds,      *)
(* faults and overlaps, unless a theorem assumes one away.                 *)
(***************************************************************************)
EXTENDS FirmwareUpdate, TLAPS

(* An exchange that has not got to its data has no blocks: what makes the   *)
(* typing of controller.got inductive.                                      *)
Fresh == controller.mode \in {"ask", "layout"} => controller.got = <<>>

TypeInv == TypeOK /\ Fresh

USE DEF Partitions, Steps, Modes

LEMMA ImageBounds ==
    /\ 0..Web \subseteq Images /\ Torn \in Images
    /\ 1..MaxUploads \subseteq Images /\ Absent \notin Images
    /\ Web \in Nat /\ MaxUploads \in Nat
  BY BoundsAssumption DEF Images, Web, Torn, Absent

(* TypeOK and Fresh hold of the initial states.                             *)
LEMMA InitType == Init => TypeInv
  <1> SUFFICES ASSUME Init PROVE TypeInv
    OBVIOUS
  <1>1. 0 \in Images /\ 0 \in 0..Blocks /\ <<>> \in Seq(Images)
    BY BoundsAssumption DEF Images, Web
  <1>2. controller \in [mode : Modes, program : Images, count : 0..Blocks, got : Seq(Images)]
    BY <1>1 DEF Init
  <1>3. Len(controller.got) <= controller.count /\ Fresh
    BY DEF Init, Fresh
  <1>4. partition \in [Partitions -> Images]
    BY <1>1 DEF Init
  <1> QED
    BY <1>2, <1>3, <1>4, BoundsAssumption DEF Init, TypeInv, TypeOK

(* A controller reset keeps the controller's type and leaves no blocks.     *)
LEMMA ResetType ==
    ASSUME TypeOK
    PROVE  /\ ControllerReset \in [mode : Modes, program : Images, count : 0..Blocks, got : Seq(Images)]
           /\ ControllerReset.got = <<>> /\ Len(ControllerReset.got) <= ControllerReset.count
           /\ ControllerReset.mode = "ask" /\ ControllerReset.program = controller.program
  <1>1. 0 \in 0..Blocks /\ <<>> \in Seq(Images) /\ Len(<<>>) = 0
    BY BoundsAssumption
  <1>2. ControllerReset \in [mode : Modes, program : Images, count : 0..Blocks, got : Seq(Images)]
    BY <1>1 DEF TypeOK, ControllerReset
  <1>3. /\ ControllerReset.got = <<>> /\ ControllerReset.count = 0
        /\ ControllerReset.mode = "ask" /\ ControllerReset.program = controller.program
    BY DEF TypeOK, ControllerReset
  <1> QED
    BY <1>1, <1>2, <1>3

(* What TypeInv says of the variables the update task assigns.              *)
TaskType ==
    /\ aggregate \in {NoPackage} \union [image : 1..MaxUploads, kind : Kinds]
    /\ package \in {NoPackage} \union [image : 1..MaxUploads, kind : Kinds]
    /\ partition \in [Partitions -> Images]
    /\ boot \in Partitions /\ staged \in {Absent} \union Images
    /\ phase \in 0..4 /\ status \in 0..4
    /\ requested \in BOOLEAN /\ pc \in Steps
    /\ controller \in [mode : Modes, program : Images, count : 0..Blocks, got : Seq(Images)]
    /\ Len(controller.got) <= controller.count
    /\ Fresh

LEMMA TaskTypeStep ==
    ASSUME TypeInv, Rest, TaskType'
    PROVE  TypeInv'
  BY DEF TypeInv, TypeOK, Rest, TaskType, transfer

LEMMA ImageOf ==
    ASSUME TypeOK
    PROVE  package.image \in Images
  BY ImageBounds DEF TypeOK, NoPackage, Images

(* A restart that leaves the controller alone.                              *)
LEMMA RestartedType ==
    ASSUME TypeInv, Restarted, UNCHANGED <<controller, disturbances>>
    PROVE  TypeInv'
  <1>1. /\ running' \in Partitions /\ UNCHANGED <<aggregate, uploads, partition, boot, staged, phase>>
    BY DEF Restarted, card, TypeInv, TypeOK
  <1>2. /\ requested' = TRUE /\ pc' = "boot" /\ package' = NoPackage /\ status' = 0
        /\ timer' = FALSE /\ active' = FALSE /\ waiting' = FALSE /\ web' = "idle"
    BY DEF Restarted
  <1>3. Fresh' /\ (Len(controller.got) <= controller.count)'
    BY DEF TypeInv, TypeOK, Fresh
  <1>4. /\ (requested \in BOOLEAN /\ timer \in BOOLEAN /\ active \in BOOLEAN /\ waiting \in BOOLEAN)'
        /\ (pc \in Steps /\ web \in {"idle", "receiving", "written", "restart"})'
    BY <1>2
  <1>5. (status \in 0..4 /\ phase \in 0..4 /\ uploads \in 0..MaxUploads)'
    BY <1>1, <1>2 DEF TypeInv, TypeOK
  <1>6. /\ (partition \in [Partitions -> Images] /\ boot \in Partitions)'
        /\ (staged \in {Absent} \union Images)' /\ (disturbances \in 0..MaxDisturbances)'
        /\ (controller \in [mode : Modes, program : Images, count : 0..Blocks, got : Seq(Images)])'
        /\ (aggregate \in {NoPackage} \union [image : 1..MaxUploads, kind : Kinds])'
    BY <1>1 DEF TypeInv, TypeOK
  <1>7. (package \in {NoPackage} \union [image : 1..MaxUploads, kind : Kinds])'
    BY <1>2
  <1> QED
    BY <1>1, <1>3, <1>4, <1>5, <1>6, <1>7 DEF TypeInv, TypeOK

LEMMA UpdateType == TypeInv /\ Update => TypeInv'
  <1> SUFFICES ASSUME TypeInv, Update PROVE TypeInv'
    OBVIOUS
  <1>t. TypeOK /\ TaskType
    BY DEF TypeInv, TypeOK, TaskType
  <1>p. ASSUME NEW n \in 0..4, persist_update_phase(n) PROVE phase' \in 0..4
    BY <1>p, <1>t DEF persist_update_phase, TypeOK
  <1>1. CASE Boot
    BY <1>1, <1>p, <1>t, TaskTypeStep DEF Boot, TaskType, Fresh
  <1>2. CASE Take
    BY <1>2, <1>t, TaskTypeStep DEF Take, TaskType, Fresh
  <1>3. CASE LoadAbsent
    <2>1. controller' \in {controller, ControllerReset}
      BY <1>3 DEF LoadAbsent
    <2> QED
      BY <1>3, <1>t, <2>1, ResetType, TaskTypeStep DEF LoadAbsent, TaskType, Fresh
  <1>4. CASE Load
    <2>1. phase' \in 0..4 /\ status' = 0
      BY <1>4, <1>p DEF Load
    <2>2. package' \in {aggregate, package} /\ pc' \in {"reject", "publish", "stage", "idle"}
      BY <1>4 DEF Load
    <2> QED
      BY <1>4, <1>t, <2>1, <2>2, TaskTypeStep DEF Load, TaskType, Fresh
  <1>5. CASE Reject
    BY <1>5, <1>t, TaskTypeStep DEF Reject, TaskType, Fresh
  <1>6. CASE PublishMain
    BY <1>6, <1>p, <1>t, TaskTypeStep DEF PublishMain, TaskType, Fresh
  <1>7. CASE OtaBegin
    BY <1>7, <1>t, ImageBounds, TaskTypeStep DEF OtaBegin, Ota, TaskType, Fresh
  <1>8. CASE OtaWrite
    BY <1>8, <1>t, ImageOf, TaskTypeStep DEF OtaWrite, Ota, TaskType, Fresh
  <1>9. CASE OtaFinalize
    BY <1>9, <1>t, TaskTypeStep DEF OtaFinalize, Ota, TaskType, Fresh
  <1>10. CASE OtaSelect
    <2>1. boot' \in Partitions /\ pc' \in Steps
      BY <1>10, <1>t DEF OtaSelect, Inactive, TypeOK
    <2> QED
      BY <1>10, <1>t, <2>1, TaskTypeStep DEF OtaSelect, Ota, TaskType, Fresh
  <1>11. CASE \E s \in {"begin", "write", "finalize", "select"} : OtaFails(s)
    BY <1>11, <1>t, TaskTypeStep DEF OtaFails, Ota, TaskType, Fresh
  <1>12. CASE FailMainboard
    BY <1>12, <1>p, <1>t, TaskTypeStep DEF FailMainboard, TaskType, Fresh
  <1>13. CASE StageOpen
    BY <1>13, <1>t, ImageBounds, TaskTypeStep DEF StageOpen, AfterStaging, TaskType, Fresh
  <1>14. CASE StageCopy
    BY <1>14, <1>t, ImageOf, TaskTypeStep DEF StageCopy, AfterStaging, TaskType, Fresh
  <1>15. CASE PersistController
    BY <1>15, <1>p, <1>t, TaskTypeStep DEF PersistController, TaskType, Fresh
  <1>16. CASE Remove
    BY <1>16, <1>t, TaskTypeStep DEF Remove, TaskType, Fresh
  <1>17. CASE SendReset
    <2>1. controller' \in {controller, ControllerReset}
      BY <1>17 DEF SendReset
    <2> QED
      BY <1>17, <1>t, <2>1, ResetType, TaskTypeStep DEF SendReset, TaskType, Fresh
  <1>18. CASE Restart
    BY <1>18, RestartedType DEF Restart
  <1> QED
    BY <1>1, <1>2, <1>3, <1>4, <1>5, <1>6, <1>7, <1>8, <1>9, <1>10, <1>11, <1>12,
       <1>13, <1>14, <1>15, <1>16, <1>17, <1>18 DEF Update

(* The controller's record, and each of the ways in which the exchange      *)
(* changes it.                                                              *)
Controllers == [mode : Modes, program : Images, count : 0..Blocks, got : Seq(Images)]
Ctl(m, v, n, g) == [mode |-> m, program |-> v, count |-> n, got |-> g]

(* An exchange that is given up leaves no blocks.                           *)
LEMMA GivenUp ==
    ASSUME NEW c \in Controllers
    PROVE  /\ [c EXCEPT !.mode = "run", !.got = <<>>] = Ctl("run", c.program, c.count, <<>>)
           /\ [c EXCEPT !.mode = "run", !.count = 0, !.got = <<>>] = Ctl("run", c.program, 0, <<>>)
  <1> DEFINE c1 == Ctl("run", c.program, c.count, c.got)
             c2 == Ctl("run", c.program, 0, c.got)
  <1>0. <<>> \in Seq(Images) /\ 0 \in 0..Blocks
    BY BoundsAssumption
  <1>1. [c EXCEPT !.mode = "run"] = c1 /\ c1 \in Controllers
    BY DEF Controllers, Ctl
  <1>2. c1.mode = "run" /\ c1.program = c.program /\ c1.count = c.count
    BY DEF Ctl
  <1>3. [c1 EXCEPT !.got = <<>>] = Ctl("run", c.program, c.count, <<>>)
    <2> HIDE DEF c1
    <2> QED BY <1>0, <1>1, <1>2 DEF Controllers, Ctl
  <1>4. [c1 EXCEPT !.count = 0] = c2 /\ c2 \in Controllers
    BY <1>0 DEF Controllers, Ctl
  <1>5. c2.mode = "run" /\ c2.program = c.program /\ c2.count = 0
    BY DEF Ctl
  <1>6. [c2 EXCEPT !.got = <<>>] = Ctl("run", c.program, 0, <<>>)
    <2> HIDE DEF c2
    <2> QED BY <1>0, <1>4, <1>5 DEF Controllers, Ctl
  <1> QED
    BY <1>1, <1>3, <1>4, <1>6

(* A step of the transfer: what it assigns has its type.                    *)
LEMMA TransferTypeStep ==
    ASSUME TypeInv, UNCHANGED <<card, flash, phase, task, web>>,
           disturbances' \in 0..MaxDisturbances, staged' \in {Absent} \union Images,
           status' \in 0..4, timer' \in BOOLEAN, active' \in BOOLEAN, waiting' \in BOOLEAN,
           NEW m \in Modes, NEW v \in Images, NEW n \in 0..Blocks, NEW g \in Seq(Images),
           controller' = Ctl(m, v, n, g), Len(g) <= n, m \in {"ask", "layout"} => g = <<>>
    PROVE  TypeInv'
  <1>1. controller' \in Controllers /\ (Len(controller.got) <= controller.count)' /\ Fresh'
    BY DEF Controllers, Ctl, Fresh
  <1>2. UNCHANGED <<aggregate, uploads, partition, boot, running, phase, requested, pc, package, web>>
    BY DEF card, flash, task
  <1> QED
    BY <1>1, <1>2 DEF TypeInv, TypeOK, Controllers

LEMMA TransferTypeNext ==
    ASSUME TypeInv, Transfer \/ HandleCancel \/ HandleTimeout
    PROVE  TypeInv'
  <1> DEFINE c == controller
  <1>t. /\ TypeOK /\ Fresh /\ disturbances \in 0..MaxDisturbances /\ c \in Controllers
        /\ staged \in {Absent} \union Images
        /\ active \in BOOLEAN /\ waiting \in BOOLEAN /\ status \in 0..4 /\ timer \in BOOLEAN
    BY DEF TypeInv, TypeOK, Controllers
  <1>c. /\ c.mode \in Modes /\ c.program \in Images /\ c.count \in 0..Blocks
        /\ c.got \in Seq(Images) /\ Len(c.got) \in Nat /\ Len(c.got) <= c.count
        /\ c = Ctl(c.mode, c.program, c.count, c.got)
    BY <1>t DEF TypeOK, Controllers, Ctl
  <1>z. /\ <<>> \in Seq(Images) /\ 0 \in 0..Blocks
        /\ Len(<<>>) <= 0 /\ Len(<<>>) <= c.count
    BY <1>c, BoundsAssumption
  <1>p. Publish(2) \/ Publish(3) \/ Publish(4) => status' \in 0..4 /\ timer' \in BOOLEAN
    <2>1. Publish(2) \/ Publish(3) \/ Publish(4) => status' \in 0..4
      BY DEF Publish
    <2>2. Publish(2) \/ Publish(3) \/ Publish(4) => timer' \in BOOLEAN
      BY Zenon DEF Publish
    <2> QED BY <2>1, <2>2
  <1>d. ASSUME disturbances < MaxDisturbances, disturbances' = disturbances + 1
        PROVE  disturbances' \in 0..MaxDisturbances
    BY <1>d, <1>t, BoundsAssumption
  <1>r. [c EXCEPT !.mode = "run", !.got = <<>>] = Ctl("run", c.program, c.count, <<>>)
    BY <1>t, GivenUp
  <1>e. ASSUME ReportError
        PROVE  /\ controller' = Ctl("run", c.program, c.count, <<>>)
               /\ status' \in 0..4 /\ timer' \in BOOLEAN /\ active' \in BOOLEAN
    BY <1>e, <1>t, <1>p, <1>r DEF ReportError
  <1>1. CASE HandleStart
    <2>1. /\ active' \in BOOLEAN /\ waiting' \in BOOLEAN
          /\ status' \in 0..4 /\ timer' \in BOOLEAN
      <3>1. CASE staged = Absent
        BY <1>1, <1>t, <3>1 DEF HandleStart, display
      <3>2. CASE staged # Absent
        BY <1>1, <1>t, <1>p, <3>2 DEF HandleStart
      <3> QED BY <3>1, <3>2
    <2>2. PICK m \in Modes : controller' = Ctl(m, c.program, c.count, c.got)
      BY <1>1, <1>t, <1>c DEF HandleStart, Controllers, Ctl
    <2>3. c.got = <<>>
      BY <1>1, <1>t DEF HandleStart, Frame, Fresh
    <2>4. UNCHANGED <<card, flash, phase, task, web, staged, disturbances>>
      BY <1>1 DEF HandleStart, Frame
    <2> QED
      BY <1>t, <1>c, <2>1, <2>2, <2>3, <2>4, TransferTypeStep
  <1>2. CASE HandleGeometry
    <2>1. waiting' \in BOOLEAN /\ UNCHANGED <<card, flash, phase, task, web, staged, disturbances>>
      BY <1>2, <1>t DEF HandleGeometry, Frame
    <2>2. CASE ReportError
      BY <1>t, <1>c, <1>z, <1>e, <2>1, <2>2, TransferTypeStep
    <2>3. ASSUME UNCHANGED <<active, display>>,
                 NEW n \in 0..Blocks, controller' = [c EXCEPT !.mode = "load", !.count = n]
          PROVE  TypeInv'
      <3>1. controller' = Ctl("load", c.program, n, c.got) /\ c.got = <<>>
        BY <1>2, <1>t, <2>3 DEF HandleGeometry, Frame, Fresh, Controllers, Ctl
      <3>2. status' \in 0..4 /\ timer' \in BOOLEAN /\ active' \in BOOLEAN
        BY <1>t, <2>3 DEF display
      <3>3. Len(c.got) <= n
        BY <1>z, <3>1, BoundsAssumption
      <3> QED
        BY <1>t, <1>c, <2>1, <3>1, <3>2, <3>3, TransferTypeStep
    <2>4. (IF staged = Torn THEN 0..Blocks ELSE {Blocks}) \subseteq 0..Blocks
      BY BoundsAssumption
    <2> QED
      BY <1>2, <2>2, <2>3, <2>4 DEF HandleGeometry
  <1>3. CASE HandleData
    <2>1. waiting' \in BOOLEAN /\ UNCHANGED <<card, flash, phase, task, web, staged, disturbances>>
      BY <1>3, <1>t DEF HandleData, Frame
    <2>2. CASE ReportError
      BY <1>t, <1>c, <1>z, <1>e, <2>1, <2>2, TransferTypeStep
    <2>3. CASE /\ staged # Absent /\ Publish(2) /\ UNCHANGED active
               /\ controller' = [c EXCEPT !.got = Append(@, staged)]
      <3>1. /\ Append(c.got, staged) \in Seq(Images) /\ Len(Append(c.got, staged)) <= c.count
            /\ c.mode = "load"
        BY <1>3, <1>t, <1>c, <2>3, BoundsAssumption DEF HandleData, Frame
      <3>2. controller' = Ctl(c.mode, c.program, c.count, Append(c.got, staged))
        BY <1>t, <2>3 DEF Controllers, Ctl
      <3> QED
        BY <1>t, <1>c, <1>p, <2>1, <2>3, <3>1, <3>2, TransferTypeStep, Zenon
    <2>4. CASE /\ Publish(2) /\ UNCHANGED active
               /\ controller' = [c EXCEPT !.mode = "run", !.got = <<>>]
      BY <1>t, <1>c, <1>p, <1>r, <1>z, <2>1, <2>4, TransferTypeStep
    <2> QED
      BY <1>3, <2>2, <2>3, <2>4 DEF HandleData
  <1>4. CASE Program
    <2>1. ASSUME \A i \in 1..Blocks : controller.got[i] = controller.got[1],
                 Len(controller.got) = controller.count, controller.count = Blocks
          PROVE  controller.got[1] \in Images
      BY <1>c, <2>1, BoundsAssumption
    <2>2. PICK v \in Images : controller' = [c EXCEPT !.mode = "done", !.program = v]
      BY <1>4, <2>1, ImageBounds DEF Program
    <2>3. controller' = Ctl("done", v, c.count, c.got)
      BY <1>t, <2>2 DEF Controllers, Ctl
    <2>4. UNCHANGED <<card, flash, staged, phase, task, status, timer, active, waiting, web, disturbances>>
      BY <1>4 DEF Program, display, transfer
    <2> QED
      BY <1>t, <1>c, <2>3, <2>4, TransferTypeStep
  <1>5. CASE HandleComplete
    <2>1. controller' = Ctl("run", c.program, c.count, c.got)
      BY <1>5, <1>t DEF HandleComplete, Controllers, Ctl
    <2> QED
      BY <1>5, <1>t, <1>c, <1>p, <2>1, TransferTypeStep, Zenon DEF HandleComplete, Frame
  <1>6. CASE HandleCancel
    <2>1. controller' = Ctl("run", c.program, 0, <<>>)
      BY <1>6, <1>t, GivenUp DEF HandleCancel
    <2>2. /\ UNCHANGED <<card, flash, phase, task, web, staged>>
          /\ active' \in BOOLEAN /\ waiting' \in BOOLEAN /\ status' \in 0..4 /\ timer' \in BOOLEAN
          /\ disturbances' \in 0..MaxDisturbances
      BY <1>6, <1>p, <1>d DEF HandleCancel
    <2> QED
      BY <1>t, <1>c, <1>z, <2>1, <2>2, TransferTypeStep
  <1>7. CASE HandleTimeout
    <2>1. /\ UNCHANGED <<card, flash, phase, task, web, staged, controller>>
          /\ active' \in BOOLEAN /\ waiting' \in BOOLEAN /\ status' \in 0..4 /\ timer' \in BOOLEAN
          /\ disturbances' \in 0..MaxDisturbances
      BY <1>7, <1>p, <1>d DEF HandleTimeout
    <2> QED
      BY <1>t, <1>c, <2>1, TransferTypeStep DEF Fresh
  <1> QED
    BY <1>1, <1>2, <1>3, <1>4, <1>5, <1>6, <1>7 DEF Transfer

(* The other actions of Next, one step each.                                *)
LEMMA OtherType ==
    ASSUME TypeInv,
           \/ \E k \in Kinds : Upload(k)
           \/ Request \/ PowerLoss \/ MonitorTick \/ SuccessShown
           \/ WebBegin \/ WebWrite \/ WebFails \/ WebFinish \/ WebRestart
    PROVE  TypeInv'
  <1>t. TypeOK /\ Fresh /\ Inactive \in Partitions
    BY DEF TypeInv, TypeOK, Inactive
  <1>d. ASSUME disturbances < MaxDisturbances, disturbances' = disturbances + 1
        PROVE  disturbances' \in 0..MaxDisturbances
    BY <1>d, <1>t, BoundsAssumption DEF TypeOK
  <1>1. ASSUME NEW k \in Kinds, Upload(k) PROVE TypeInv'
    <2>1. uploads' \in 0..MaxUploads /\ aggregate' \in [image : 1..MaxUploads, kind : Kinds]
      BY <1>1, <1>t, BoundsAssumption DEF Upload, TypeOK
    <2> QED
      BY <1>1, <1>t, <2>1 DEF Upload, TypeInv, TypeOK, Fresh, flash, task, display, transfer
  <1>2. CASE Request
    BY <1>2, <1>t, <1>d DEF Request, TypeInv, TypeOK, Fresh, card, flash, display, transfer
  <1>3. CASE PowerLoss
    <2>1. /\ running' \in Partitions /\ UNCHANGED <<aggregate, uploads, partition, boot, staged, phase>>
      BY <1>3, <1>t DEF PowerLoss, Restarted, card, TypeOK
    <2>2. /\ requested' = TRUE /\ pc' = "boot" /\ package' = NoPackage /\ status' = 0
          /\ timer' = FALSE /\ active' = FALSE /\ waiting' = FALSE /\ web' = "idle"
      BY <1>3 DEF PowerLoss, Restarted
    <2>3. controller' = ControllerReset /\ disturbances' \in 0..MaxDisturbances
      BY <1>3, <1>d DEF PowerLoss
    <2>4. /\ (requested \in BOOLEAN /\ timer \in BOOLEAN /\ active \in BOOLEAN /\ waiting \in BOOLEAN)'
          /\ (pc \in Steps /\ web \in {"idle", "receiving", "written", "restart"})'
      BY <2>2
    <2>5. (package \in {NoPackage} \union [image : 1..MaxUploads, kind : Kinds])'
      BY <2>2
    <2>6. /\ (controller \in [mode : Modes, program : Images, count : 0..Blocks, got : Seq(Images)])'
          /\ (Len(controller.got) <= controller.count)' /\ Fresh'
      BY <1>t, <2>3, ResetType DEF Fresh
    <2>7. (status \in 0..4)'
      BY <2>2
    <2> QED
      BY <1>t, <2>1, <2>3, <2>4, <2>5, <2>6, <2>7 DEF TypeInv, TypeOK
  <1>4. CASE MonitorTick
    <2>1. /\ (controller \in [mode : Modes, program : Images, count : 0..Blocks, got : Seq(Images)])'
          /\ (Len(controller.got) <= controller.count)' /\ Fresh'
      BY <1>4, <1>t, ResetType DEF MonitorTick, Fresh
    <2> QED
      BY <1>4, <1>t, <2>1 DEF MonitorTick, TypeInv, TypeOK, card, flash, task, display, transfer
  <1>5. CASE SuccessShown
    <2>0. timer' = FALSE /\ status' = 0
      BY <1>5 DEF SuccessShown
    <2>1. (timer \in BOOLEAN)' /\ (status \in 0..4)'
      <3>1. (status \in 0..4)'
        BY <2>0
      <3> QED
        BY <2>0, <3>1, Zenon
    <2>2. UNCHANGED <<aggregate, uploads, partition, boot, running, staged, phase, requested,
                      pc, package, active, waiting, web, controller, disturbances>>
      BY <1>5 DEF SuccessShown, card, flash, task, transfer
    <2> QED
      BY <1>t, <2>1, <2>2 DEF TypeInv, TypeOK, Fresh
  <1>6. CASE WebBegin
    <2>1. partition' \in [Partitions -> Images]
      BY <1>6, <1>t, ImageBounds DEF WebBegin, TypeOK
    <2> QED
      BY <1>6, <1>t, <1>d, <2>1
         DEF WebBegin, WebStep, TypeInv, TypeOK, Fresh, card, task, display, transfer
  <1>7. CASE WebWrite
    <2>1. partition' \in [Partitions -> Images]
      BY <1>7, <1>t, ImageBounds DEF WebWrite, TypeOK
    <2> QED
      BY <1>7, <1>t, <2>1
         DEF WebWrite, WebStep, TypeInv, TypeOK, Fresh, card, task, display, transfer
  <1>8. CASE WebFails
    BY <1>8, <1>t DEF WebFails, WebStep, TypeInv, TypeOK, Fresh, card, task, display, transfer
  <1>9. CASE WebFinish
    BY <1>9, <1>t DEF WebFinish, WebStep, TypeInv, TypeOK, Fresh, card, task, display, transfer
  <1>10. CASE WebRestart
    BY <1>10, RestartedType DEF WebRestart
  <1> QED
    BY <1>1, <1>2, <1>3, <1>4, <1>5, <1>6, <1>7, <1>8, <1>9, <1>10

LEMMA StutterType == TypeInv /\ UNCHANGED vars => TypeInv'
  BY DEF TypeInv, TypeOK, Fresh, vars, card, flash, task, display, transfer

(* Every variable keeps its type whatever fails and overlaps, and the       *)
(* controller never gets more blocks than the layout it was told.           *)
THEOREM TypeCorrect == Spec => []TypeOK
  <1>1. TypeInv /\ [Next]_vars => TypeInv'
    BY UpdateType, TransferTypeNext, OtherType, StutterType DEF Next
  <1>2. TypeInv => TypeOK
    BY DEF TypeInv
  <1> QED
    BY InitType, <1>1, <1>2, PTL DEF Spec

-----------------------------------------------------------------------------
(* The flash.  Either the machine goes on running and the partition it runs *)
(* from is left alone, or it restarts from the selected one, or from the    *)
(* other if that is not whole.                                              *)
GoesOn   == running' = running /\ partition'[running] = partition[running]
Restarts ==
    /\ partition' = partition /\ boot' = boot
    /\ running' = IF partition[boot] # Torn THEN boot ELSE 1 - boot

LEMMA FlashStep ==
    ASSUME TypeInv, [Next]_vars
    PROVE  GoesOn \/ Restarts
  <1>t. /\ partition \in [Partitions -> Images] /\ running \in Partitions
        /\ Inactive \in Partitions /\ Inactive # running
    BY DEF TypeInv, TypeOK, Inactive
  <1>1. CASE Update
    <2>1. CASE OtaBegin \/ OtaWrite
      BY <1>t, <2>1 DEF OtaBegin, OtaWrite, Ota, Rest, GoesOn
    <2>2. CASE OtaFinalize \/ OtaSelect \/ \E x \in {"begin", "write", "finalize", "select"} : OtaFails(x)
      BY <2>2 DEF OtaFinalize, OtaSelect, OtaFails, Ota, Rest, GoesOn
    <2>3. CASE Restart
      BY <2>3 DEF Restart, Restarted, Restarts
    <2>4. CASE \/ Boot \/ Take \/ LoadAbsent \/ Load \/ Reject \/ PublishMain \/ FailMainboard
               \/ StageOpen \/ StageCopy \/ PersistController \/ Remove \/ SendReset
      BY <2>4 DEF Boot, Take, LoadAbsent, Load, Reject, PublishMain, FailMainboard, StageOpen,
                  StageCopy, PersistController, Remove, SendReset, Rest, GoesOn
    <2> QED
      BY <1>1, <2>1, <2>2, <2>3, <2>4 DEF Update
  <1>2. CASE Transfer \/ HandleCancel \/ HandleTimeout \/ MonitorTick \/ SuccessShown \/ Request
             \/ \E k \in Kinds : Upload(k)
    BY <1>2 DEF Transfer, HandleStart, HandleGeometry, HandleData, Program, HandleComplete, Frame,
                HandleCancel, HandleTimeout, MonitorTick, SuccessShown, Request, Upload, flash, GoesOn
  <1>3. CASE WebBegin \/ WebWrite
    BY <1>3, <1>t DEF WebBegin, WebWrite, WebStep, GoesOn
  <1>4. CASE WebFails \/ WebFinish
    BY <1>4 DEF WebFails, WebFinish, WebStep, GoesOn
  <1>5. CASE PowerLoss \/ WebRestart
    BY <1>5 DEF PowerLoss, WebRestart, Restarted, Restarts
  <1>6. CASE UNCHANGED vars
    BY <1>6 DEF vars, flash, GoesOn
  <1> QED
    BY <1>1, <1>2, <1>3, <1>4, <1>5, <1>6 DEF Next

(* Whatever fails, overlaps or loses power, the partition the machine runs  *)
(* from holds a whole image: an update only ever writes the other one, and  *)
(* the boot loader falls back to it.                                        *)
THEOREM RunningImageIsWhole == Spec => []RunningImageWhole
  <1> DEFINE Inv == TypeInv /\ RunningImageWhole
  <1>1. Init => Inv
    BY InitType DEF Init, RunningImageWhole, Torn
  <1>2. ASSUME Inv, [Next]_vars PROVE Inv'
    <2>1. TypeInv'
      BY <1>2, UpdateType, TransferTypeNext, OtherType, StutterType DEF Next
    <2>2. CASE GoesOn
      BY <1>2, <2>1, <2>2 DEF GoesOn, RunningImageWhole
    <2>3. CASE Restarts
      <3>1. boot \in Partitions /\ running \in Partitions
        BY <1>2 DEF TypeInv, TypeOK
      <3>2. RunningImageWhole'
        BY <1>2, <2>3, <3>1 DEF Restarts, RunningImageWhole
      <3> QED
        BY <2>1, <3>2
    <2> QED
      BY <1>2, <2>1, <2>2, <2>3, FlashStep
  <1> QED
    BY <1>1, <1>2, PTL DEF Spec

(* The steps in which another partition may be selected than the one that   *)
(* runs: after esp_ota_set_boot_partition, until the restart.               *)
Writing  == {"publish", "begin", "write", "finalize", "select"}
Selected == {"stage", "copy", "persist", "remove", "restart"}

BootInv ==
    /\ web # "idle" => pc = "idle"
    /\ pc \in Writing => HasMain(package.kind)
    /\ boot # running =>
          /\ partition[boot] # Torn
          /\ web = "restart" \/ (pc \in Selected /\ HasMain(package.kind))

LEMMA BootUpdate ==
    ASSUME ~WebDuringUpdate, TypeInv, RunningImageWhole, BootInv, Update
    PROVE  BootInv'
  <1> USE DEF Writing, Selected
  <1>t. /\ partition \in [Partitions -> Images] /\ running \in Partitions /\ boot \in Partitions
        /\ Inactive \in Partitions /\ Inactive # running
    BY DEF TypeInv, TypeOK, Inactive
  <1>r. boot # running => boot = Inactive
    BY <1>t DEF Inactive
  <1>1. CASE Boot \/ Take \/ LoadAbsent \/ Reject \/ PublishMain \/ FailMainboard \/ SendReset
    BY <1>1 DEF Boot, Take, LoadAbsent, Reject, PublishMain, FailMainboard, SendReset, Rest, BootInv
  <1>2. CASE Load
    BY <1>2 DEF Load, Rest, BootInv
  <1>3. CASE OtaBegin \/ OtaWrite
    BY <1>3, <1>t DEF OtaBegin, OtaWrite, Ota, Rest, BootInv
  <1>4. CASE OtaFinalize \/ \E x \in {"begin", "write", "finalize", "select"} : OtaFails(x)
    BY <1>4 DEF OtaFinalize, OtaFails, Ota, Rest, BootInv
  <1>5. CASE OtaSelect
    BY <1>5, <1>t, <1>r DEF OtaSelect, Ota, Rest, BootInv
  <1>6. CASE StageOpen \/ StageCopy
    BY <1>6 DEF StageOpen, StageCopy, AfterStaging, Rest, BootInv
  <1>7. CASE PersistController \/ Remove
    BY <1>7 DEF PersistController, Remove, Rest, BootInv
  <1>8. CASE Restart
    BY <1>8 DEF Restart, Restarted, BootInv, RunningImageWhole
  <1> QED
    BY <1>1, <1>2, <1>3, <1>4, <1>5, <1>6, <1>7, <1>8 DEF Update

LEMMA BootOther ==
    ASSUME ~WebDuringUpdate, TypeInv, RunningImageWhole, BootInv, [Next]_vars, ~Update
    PROVE  BootInv'
  <1> USE DEF Writing, Selected
  <1>t. /\ partition \in [Partitions -> Images] /\ running \in Partitions /\ boot \in Partitions
        /\ Inactive \in Partitions /\ Inactive # running
    BY DEF TypeInv, TypeOK, Inactive
  <1>1. CASE Transfer \/ HandleCancel \/ HandleTimeout \/ MonitorTick \/ SuccessShown \/ Request
             \/ \E k \in Kinds : Upload(k)
    <2>1. UNCHANGED <<partition, boot, running, pc, package, web>>
      BY <1>1 DEF Transfer, HandleStart, HandleGeometry, HandleData, Program, HandleComplete, Frame,
                  HandleCancel, HandleTimeout, MonitorTick, SuccessShown, Request, Upload, flash, task
    <2> QED BY <2>1 DEF BootInv
  <1>2. CASE WebBegin \/ WebWrite \/ WebFails
    BY <1>2, <1>t DEF WebBegin, WebWrite, WebFails, WebStep, task, BootInv
  <1>3. CASE WebFinish
    BY <1>3, <1>t DEF WebFinish, WebStep, task, BootInv
  <1>4. CASE PowerLoss \/ WebRestart
    BY <1>4 DEF PowerLoss, WebRestart, Restarted, BootInv, RunningImageWhole
  <1>5. CASE UNCHANGED vars
    BY <1>5 DEF vars, flash, task, BootInv
  <1> QED
    BY <1>1, <1>2, <1>3, <1>4, <1>5 DEF Next

(* When the web update and the update task take turns, the partition        *)
(* selected for the next boot is whole at every moment: it is selected      *)
(* after it was verified, and not erased before the machine runs from it.   *)
THEOREM BootImageIsWhole ==
    ASSUME ~WebDuringUpdate
    PROVE  Spec => []BootImageWhole
  <1>1. Init => BootInv
    BY DEF Init, BootInv, Writing
  <1>2. TypeInv /\ RunningImageWhole /\ BootInv /\ [Next]_vars => BootInv'
    BY BootUpdate, BootOther
  <1>3. TypeInv /\ [Next]_vars => TypeInv'
    BY UpdateType, TransferTypeNext, OtherType, StutterType DEF Next
  <1>4. RunningImageWhole /\ BootInv => BootImageWhole
    BY DEF RunningImageWhole, BootInv, BootImageWhole
  <1> QED
    BY InitType, RunningImageIsWhole, <1>1, <1>2, <1>3, <1>4, PTL DEF Spec

-----------------------------------------------------------------------------
(* The staged image.  It does not change while the controller fetches it,   *)
(* so all blocks the controller has are of that image, and so is what it    *)
(* has programmed when it reports completion.                               *)
Fetching == {"layout", "load", "done"}

DeliveryInv ==
    /\ pc = "copy" => controller.mode \notin Fetching
    /\ staged \in 0..Web /\ controller.mode = "load" =>
          /\ controller.count = Blocks
          /\ \A i \in 1..Len(controller.got) : controller.got[i] = staged
    /\ staged \in 0..Web /\ controller.mode = "done" => controller.program = staged

LEMMA DeliveryUpdate ==
    ASSUME ~StageDuringTransfer, TypeInv, DeliveryInv, Update
    PROVE  DeliveryInv'
  <1> USE DEF Fetching
  <1>c. ASSUME controller' = ControllerReset PROVE controller'.mode = "ask"
    BY <1>c, ResetType DEF TypeInv
  <1>1. CASE \/ Boot \/ Take \/ Load \/ Reject \/ PublishMain \/ FailMainboard
             \/ PersistController \/ Remove
    BY <1>1 DEF Boot, Take, Load, Reject, PublishMain, FailMainboard, PersistController,
                Remove, Rest, DeliveryInv
  <1>2. CASE LoadAbsent
    BY <1>2, <1>c DEF LoadAbsent, DeliveryInv
  <1>3. CASE SendReset
    BY <1>3, <1>c DEF SendReset, DeliveryInv
  <1>4. CASE OtaBegin \/ OtaWrite \/ OtaFinalize \/ OtaSelect
             \/ \E x \in {"begin", "write", "finalize", "select"} : OtaFails(x)
    BY <1>4 DEF OtaBegin, OtaWrite, OtaFinalize, OtaSelect, OtaFails, Ota, DeliveryInv
  <1>5. CASE StageOpen
    <2>1. controller' = controller /\ controller.mode \in {"run", "ask"}
      BY <1>5 DEF StageOpen
    <2> QED BY <2>1 DEF DeliveryInv
  <1>6. CASE StageCopy
    <2>1. controller' = controller /\ controller.mode \notin Fetching
      BY <1>6 DEF StageCopy, DeliveryInv
    <2> QED BY <2>1 DEF DeliveryInv
  <1>7. CASE Restart
    BY <1>7 DEF Restart, Restarted, DeliveryInv
  <1> QED
    BY <1>1, <1>2, <1>3, <1>4, <1>5, <1>6, <1>7 DEF Update

LEMMA DeliveryOther ==
    ASSUME ~StageDuringTransfer, TypeInv, DeliveryInv, [Next]_vars, ~Update
    PROVE  DeliveryInv'
  <1> USE DEF Fetching
  <1> DEFINE c == controller
  <1>t. c \in Controllers /\ Len(c.got) \in Nat /\ c.got \in Seq(Images) /\ Fresh
    BY DEF TypeInv, TypeOK, Controllers
  <1>c. ASSUME controller' = ControllerReset PROVE controller'.mode = "ask"
    BY <1>c, ResetType DEF TypeInv
  <1>e. ASSUME ReportError PROVE controller'.mode = "run"
    BY <1>e, <1>t, GivenUp DEF ReportError, Ctl
  <1>1. CASE HandleStart
    <2>1. pc' = pc /\ pc # "copy" /\ controller'.mode \in {"run", "layout", "ask"}
      BY <1>1, <1>t DEF HandleStart, Frame, task, Controllers
    <2> QED BY <2>1 DEF DeliveryInv
  <1>2. CASE HandleGeometry
    <2>1. pc' = pc /\ pc # "copy" /\ staged' = staged /\ c.got = <<>>
      BY <1>2, <1>t DEF HandleGeometry, Frame, task, DeliveryInv, Fresh
    <2>2. CASE ReportError
      BY <1>e, <2>1, <2>2 DEF DeliveryInv
    <2>3. ASSUME NEW n \in IF staged = Torn THEN 0..Blocks ELSE {Blocks},
                 controller' = [c EXCEPT !.mode = "load", !.count = n]
          PROVE  DeliveryInv'
      <3>1. controller'.mode = "load" /\ controller'.got = <<>> /\ controller'.count = n
        BY <1>t, <2>1, <2>3 DEF Controllers
      <3>2. staged \in 0..Web => n = Blocks
        BY <2>3 DEF Torn
      <3>3. 1..Len(controller'.got) = {}
        BY <3>1
      <3> QED BY <2>1, <3>1, <3>2, <3>3 DEF DeliveryInv
    <2> QED
      BY <1>2, <2>2, <2>3 DEF HandleGeometry
  <1>3. CASE HandleData
    <2>1. pc' = pc /\ pc # "copy" /\ staged' = staged /\ c.mode = "load"
      BY <1>3, <1>t DEF HandleData, Frame, task, DeliveryInv
    <2>2. CASE ReportError
      BY <1>e, <2>1, <2>2 DEF DeliveryInv
    <2>3. CASE staged # Absent /\ controller' = [c EXCEPT !.got = Append(@, staged)]
      <3>1. controller'.mode = "load" /\ controller'.count = c.count
        BY <1>t, <2>1, <2>3 DEF Controllers
      <3>2. controller'.got = Append(c.got, staged)
        BY <1>t, <2>3 DEF Controllers
      <3>3. staged \in Images
        BY <2>3 DEF TypeInv, TypeOK
      <3>4. ASSUME staged \in 0..Web, NEW i \in 1..Len(controller'.got)
            PROVE  controller'.got[i] = staged
        BY <1>t, <2>1, <3>2, <3>3, <3>4 DEF DeliveryInv
      <3> QED BY <2>1, <3>1, <3>4 DEF DeliveryInv
    <2>4. CASE controller' = [c EXCEPT !.mode = "run", !.got = <<>>]
      <3>1. controller'.mode = "run"
        BY <1>t, <2>4, GivenUp DEF Ctl
      <3> QED BY <2>1, <3>1 DEF DeliveryInv
    <2> QED
      BY <1>3, <2>2, <2>3, <2>4 DEF HandleData
  <1>4. CASE Program
    <2>1. pc' = pc /\ pc # "copy" /\ staged' = staged /\ controller'.mode = "done"
      BY <1>4, <1>t DEF Program, task, DeliveryInv, Controllers
    <2>2. ASSUME staged \in 0..Web PROVE controller'.program = staged
      <3>1. c.count = Blocks /\ Len(c.got) = Blocks /\ \A i \in 1..Blocks : c.got[i] = staged
        BY <1>4, <2>2 DEF Program, DeliveryInv
      <3>2. c.got[1] = staged /\ \A i \in 1..Blocks : c.got[i] = c.got[1]
        BY <3>1, BoundsAssumption
      <3> QED
        BY <1>4, <1>t, <3>1, <3>2 DEF Program, Controllers
    <2> QED BY <2>1, <2>2 DEF DeliveryInv
  <1>5. CASE HandleComplete
    <2>1. pc' = pc /\ controller'.mode = "run"
      BY <1>5, <1>t DEF HandleComplete, Frame, task, Controllers
    <2> QED BY <2>1 DEF DeliveryInv
  <1>6. CASE HandleCancel
    <2>1. controller'.mode = "run"
      BY <1>6, <1>t, GivenUp DEF HandleCancel, Ctl
    <2> QED BY <2>1 DEF DeliveryInv
  <1>7. CASE MonitorTick \/ PowerLoss
    BY <1>7, <1>c DEF MonitorTick, PowerLoss, DeliveryInv
  <1>8. CASE \/ HandleTimeout \/ SuccessShown \/ Request \/ \E k \in Kinds : Upload(k)
             \/ WebBegin \/ WebWrite \/ WebFails \/ WebFinish
    <2>1. UNCHANGED <<staged, pc, controller>>
      BY <1>8 DEF HandleTimeout, SuccessShown, Request, Upload, WebBegin, WebWrite, WebFails,
                  WebFinish, WebStep, task
    <2> QED BY <2>1 DEF DeliveryInv
  <1>9. CASE WebRestart
    BY <1>9 DEF WebRestart, Restarted, DeliveryInv
  <1>10. CASE UNCHANGED vars
    BY <1>10 DEF vars, task, DeliveryInv
  <1> QED
    BY <1>1, <1>2, <1>3, <1>4, <1>5, <1>6, <1>7, <1>8, <1>9, <1>10 DEF Next, Transfer

(* Only the end of an exchange removes the staged file.                     *)
LEMMA RemovedByComplete ==
    ASSUME TypeInv, [Next]_vars, staged \in 0..Web, staged' = Absent
    PROVE  HandleComplete
  <1>1. staged # Absent /\ Torn # Absent
    BY DEF Absent, Torn
  <1>2. ASSUME Update PROVE FALSE
    <2>1. package.image # Absent
      BY ImageOf, ImageBounds DEF TypeInv
    <2> QED
      BY <1>1, <1>2, <2>1 DEF Update, Boot, Take, LoadAbsent, Load, Reject, PublishMain, OtaBegin,
           OtaWrite, OtaFinalize, OtaSelect, OtaFails, Ota, FailMainboard, StageOpen,
           StageCopy, PersistController, Remove, SendReset, Restart, Restarted
  <1> QED
    BY <1>1, <1>2 DEF Next, Transfer, Upload, Request, PowerLoss, WebRestart, Restarted,
         MonitorTick, HandleStart, HandleGeometry, HandleData, Program, HandleCancel,
         HandleTimeout, SuccessShown, WebBegin, WebWrite, WebFails, WebFinish, WebStep, vars

(* When staging and fetching take turns, no failure, cancel, reset or power *)
(* loss gives up a staged image: it is removed only after the controller    *)
(* has programmed exactly that image.                                       *)
THEOREM StagedImageIsDelivered ==
    ASSUME ~StageDuringTransfer
    PROVE  Spec => StagedIsDelivered
  <1>1. Init => DeliveryInv
    BY DEF Init, DeliveryInv, Fetching
  <1>2. TypeInv /\ DeliveryInv /\ [Next]_vars => DeliveryInv'
    BY DeliveryUpdate, DeliveryOther
  <1>3. TypeInv /\ [Next]_vars => TypeInv'
    BY UpdateType, TransferTypeNext, OtherType, StutterType DEF Next
  <1>4. TypeInv /\ DeliveryInv /\ [Next]_vars =>
            [(staged \in 0..Web /\ staged' = Absent) => controller.program = staged]_vars
    <2> SUFFICES ASSUME TypeInv, DeliveryInv, [Next]_vars, staged \in 0..Web, staged' = Absent
                 PROVE  controller.program = staged
      OBVIOUS
    <2>1. controller.mode = "done"
      BY RemovedByComplete DEF HandleComplete, Frame
    <2> QED
      BY <2>1 DEF DeliveryInv
  <1> QED
    BY InitType, <1>1, <1>2, <1>3, <1>4, PTL DEF Spec, StagedIsDelivered

-----------------------------------------------------------------------------
(* The package.  It stays the one that was loaded until it is removed; by   *)
(* then its mainboard image is selected, and its controller image waits on  *)
(* the card or was fetched from there.                                      *)
Handling == Writing \cup {"stage", "copy", "persist", "remove"}

PackageInv ==
    /\ pc # "idle" => web = "idle"
    /\ pc = "reject" => aggregate.kind = "bad"
    /\ pc \in Handling => package = aggregate /\ package # NoPackage
    /\ pc \in {"finalize", "select"} => partition[Inactive] = package.image
    /\ pc \in {"stage", "copy", "persist", "remove"} /\ HasMain(package.kind) =>
          partition[boot] = package.image

Provided ==
    \/ staged = package.image
    \/ staged = Absent /\ controller.program = package.image

StagingInv ==
    /\ staged = Absent => controller.mode \in {"run", "ask"}
    /\ pc \in {"persist", "remove"} /\ HasController(package.kind) => Provided

AppliedInv == PackageInv /\ StagingInv

(* The update task.                                                         *)
LEMMA AppliedUpdate ==
    ASSUME ~WebDuringUpdate, {"load", "stage"} \cap Faults = {}, TypeInv, AppliedInv, Update
    PROVE  AppliedInv'
  <1> USE DEF Handling, Writing
  <1>i. PackageInv /\ StagingInv
    BY DEF AppliedInv
  <1>t. /\ partition \in [Partitions -> Images] /\ Inactive \in Partitions /\ boot \in Partitions
        /\ running \in Partitions
    BY DEF TypeInv, TypeOK, Inactive
  <1>c. ASSUME controller' = ControllerReset PROVE controller'.mode = "ask"
    BY <1>c, ResetType DEF TypeInv
  <1>n. Torn # Absent /\ package.image # Absent
    BY ImageOf, ImageBounds DEF TypeInv, Torn, Absent
  <1>1. CASE Boot \/ Take \/ FailMainboard
    BY <1>1, <1>i DEF Boot, Take, FailMainboard, Rest, AppliedInv, PackageInv, StagingInv
  <1>2. CASE LoadAbsent \/ SendReset
    BY <1>2, <1>i, <1>c DEF LoadAbsent, SendReset, Rest, AppliedInv, PackageInv, StagingInv
  <1>3. CASE Load
    <2>1. /\ pc = "load" /\ aggregate # NoPackage /\ package' = aggregate
          /\ pc' = CASE aggregate.kind = "bad" -> "reject"
                     [] HasMain(aggregate.kind) -> "publish"
                     [] OTHER -> "stage"
          /\ UNCHANGED <<aggregate, partition, boot, staged, controller, web, running>>
      BY <1>3 DEF Load, Rest
    <2>2. \/ pc' = "reject" /\ aggregate.kind = "bad"
          \/ pc' = "publish"
          \/ pc' = "stage" /\ ~HasMain(aggregate.kind)
      BY <2>1
    <2>3. PackageInv'
      BY <1>i, <2>1, <2>2 DEF PackageInv
    <2>4. StagingInv'
      BY <1>i, <2>1, <2>2 DEF StagingInv
    <2> QED
      BY <2>3, <2>4 DEF AppliedInv
  <1>4. CASE Reject \/ Remove
    BY <1>4, <1>i DEF Reject, Remove, Rest, AppliedInv, PackageInv, StagingInv
  <1>5. CASE PublishMain \/ OtaBegin
             \/ \E x \in {"begin", "write", "finalize", "select"} : OtaFails(x)
    <2>1. /\ pc \in Writing /\ pc' \in {"begin", "write", "fail"}
          /\ UNCHANGED <<aggregate, package, staged, controller, web>>
      BY <1>5 DEF PublishMain, OtaBegin, OtaFails, Ota, Rest
    <2> QED
      BY <1>i, <2>1 DEF AppliedInv, PackageInv, StagingInv
  <1>6. CASE OtaWrite
    <2>1. /\ pc = "write" /\ pc' = "finalize" /\ Inactive' = Inactive
          /\ partition' = [partition EXCEPT ![Inactive] = package.image]
          /\ UNCHANGED <<aggregate, package, staged, controller, web>>
      BY <1>6 DEF OtaWrite, Ota, Rest, Inactive
    <2>2. partition'[Inactive'] = package.image
      BY <1>t, <2>1
    <2> QED
      BY <1>i, <2>1, <2>2 DEF AppliedInv, PackageInv, StagingInv
  <1>7. CASE OtaFinalize
    <2>1. /\ pc = "finalize" /\ pc' \in {"select", "fail"} /\ Inactive' = Inactive
          /\ UNCHANGED <<aggregate, package, partition, staged, controller, web>>
      BY <1>7 DEF OtaFinalize, Ota, Rest, Inactive
    <2> QED
      BY <1>i, <2>1 DEF AppliedInv, PackageInv, StagingInv
  <1>8. CASE OtaSelect
    <2>1. /\ pc = "select" /\ ((pc' = "stage" /\ boot' = Inactive) \/ pc' = "fail")
          /\ UNCHANGED <<aggregate, package, partition, staged, controller, web>>
      BY <1>8 DEF OtaSelect, Ota, Rest
    <2> QED
      BY <1>i, <2>1 DEF AppliedInv, PackageInv, StagingInv
  <1>9. CASE StageOpen
    <2>1. /\ pc = "stage" /\ UNCHANGED <<aggregate, package, partition, boot, controller, web>>
          /\ \/ ~HasController(package.kind) /\ staged' = staged /\ pc' \in {"persist", "remove"}
             \/ staged' = Torn /\ pc' = "copy"
      BY <1>9 DEF StageOpen, AfterStaging, Rest
    <2> QED
      BY <1>i, <1>n, <2>1 DEF AppliedInv, PackageInv, StagingInv
  <1>10. CASE StageCopy
    <2>1. /\ pc = "copy" /\ UNCHANGED <<aggregate, package, partition, boot, controller, web>>
          /\ staged' = package.image /\ pc' \in {"persist", "remove"}
      BY <1>10 DEF StageCopy, AfterStaging, Rest
    <2> QED
      BY <1>i, <1>n, <2>1 DEF AppliedInv, PackageInv, StagingInv, Provided
  <1>11. CASE PersistController
    BY <1>11, <1>i DEF PersistController, Rest, AppliedInv, PackageInv, StagingInv, Provided
  <1>12. CASE Restart
    BY <1>12, <1>i DEF Restart, Restarted, AppliedInv, PackageInv, StagingInv
  <1> QED
    BY <1>1, <1>2, <1>3, <1>4, <1>5, <1>6, <1>7, <1>8, <1>9, <1>10, <1>11, <1>12 DEF Update

(* A step of the transfer that leaves the staged file alone keeps what was  *)
(* programmed, or programs the staged file.                                 *)
LEMMA AppliedTransfer ==
    ASSUME TypeInv, DeliveryInv, AppliedInv,
           Transfer \/ HandleCancel \/ HandleTimeout \/ MonitorTick \/ SuccessShown
    PROVE  AppliedInv'
  <1> DEFINE c == controller
  <1>i. PackageInv /\ StagingInv
    BY DEF AppliedInv
  <1>t. c \in Controllers /\ TypeOK /\ c.program \in Images
    BY DEF TypeInv, TypeOK, Controllers
  <1>u. UNCHANGED <<aggregate, package, partition, boot, running, pc, web>>
    BY DEF Transfer, HandleStart, HandleGeometry, HandleData, Program, HandleComplete, Frame,
           HandleCancel, HandleTimeout, MonitorTick, SuccessShown, card, flash, task
  <1>p. PackageInv'
    BY <1>i, <1>u DEF PackageInv, Inactive
  <1>a. ASSUME staged' = staged, controller'.program = c.program,
               staged = Absent => controller'.mode \in {"run", "ask"}
        PROVE  AppliedInv'
    BY <1>a, <1>i, <1>u, <1>p DEF AppliedInv, StagingInv, Provided
  <1>c. ASSUME controller' = ControllerReset
        PROVE  controller'.mode = "ask" /\ controller'.program = c.program
    BY <1>c, <1>t, ResetType
  <1>g. ASSUME \/ controller' = [c EXCEPT !.mode = "run", !.got = <<>>]
               \/ controller' = [c EXCEPT !.mode = "run", !.count = 0, !.got = <<>>]
        PROVE  controller'.mode = "run" /\ controller'.program = c.program
    BY <1>g, <1>t, GivenUp DEF Ctl
  <1>1. CASE HandleStart
    <2>1. /\ staged' = staged /\ c.mode = "ask"
          /\ \/ controller' = [c EXCEPT !.mode = "run"]
             \/ staged # Absent /\ controller' = [c EXCEPT !.mode = "layout"]
             \/ controller' = c
      BY <1>1 DEF HandleStart, Frame
    <2>2. controller'.program = c.program /\ (staged = Absent => controller'.mode \in {"run", "ask"})
      BY <1>t, <2>1 DEF Controllers
    <2> QED
      BY <1>a, <2>1, <2>2
  <1>2. CASE HandleGeometry
    <2>1. CASE ReportError
      BY <1>2, <1>a, <1>g, <2>1 DEF HandleGeometry, ReportError
    <2>2. ASSUME staged # Absent, NEW n, controller' = [c EXCEPT !.mode = "load", !.count = n]
          PROVE  AppliedInv'
      <3>1. controller'.program = c.program
        BY <1>t, <2>2 DEF Controllers
      <3> QED
        BY <1>2, <1>a, <2>2, <3>1 DEF HandleGeometry
    <2> QED
      BY <1>2, <2>1, <2>2 DEF HandleGeometry
  <1>3. CASE HandleData
    <2>1. CASE ReportError \/ controller' = [c EXCEPT !.mode = "run", !.got = <<>>]
      BY <1>3, <1>a, <1>g, <2>1 DEF HandleData, ReportError
    <2>2. CASE staged # Absent /\ controller' = [c EXCEPT !.got = Append(@, staged)]
      <3>1. controller'.program = c.program
        BY <1>t, <2>2 DEF Controllers
      <3> QED
        BY <1>3, <1>a, <2>2, <3>1 DEF HandleData
    <2> QED
      BY <1>3, <2>1, <2>2 DEF HandleData
  <1>4. CASE Program
    <2>1. c.mode = "load" /\ staged' = staged
      BY <1>4 DEF Program
    <2>2. staged # Absent
      BY <1>i, <2>1 DEF StagingInv
    <2> QED
      BY <1>i, <1>p, <1>u, <2>1, <2>2 DEF AppliedInv, StagingInv, Provided
  <1>5. CASE HandleComplete
    <2>1. /\ c.mode = "done" /\ controller' = [c EXCEPT !.mode = "run"]
          /\ staged' \in {staged, Absent}
      BY <1>5 DEF HandleComplete, Frame
    <2>2. controller'.mode = "run" /\ controller'.program = c.program
      BY <1>t, <2>1 DEF Controllers
    <2>3. ASSUME pc \in {"persist", "remove"}, HasController(package.kind)
          PROVE  staged = package.image /\ c.program = package.image
      <3>1. staged = package.image
        BY <1>i, <2>1, <2>3 DEF StagingInv, Provided
      <3>2. package.image \in 0..Web
        BY <1>t, BoundsAssumption DEF TypeOK, NoPackage, Web
      <3> QED
        BY <2>1, <3>1, <3>2 DEF DeliveryInv
    <2>4. StagingInv'
      BY <1>u, <2>1, <2>2, <2>3 DEF StagingInv, Provided
    <2> QED
      BY <1>p, <2>4 DEF AppliedInv
  <1>6. CASE HandleCancel
    BY <1>6, <1>a, <1>g DEF HandleCancel
  <1>7. CASE MonitorTick
    BY <1>7, <1>a, <1>c DEF MonitorTick
  <1>8. CASE HandleTimeout \/ SuccessShown
    <2>1. staged' = staged /\ controller' = controller
      BY <1>8 DEF HandleTimeout, SuccessShown
    <2> QED
      BY <1>a, <1>i, <2>1 DEF StagingInv
  <1> QED
    BY <1>1, <1>2, <1>3, <1>4, <1>5, <1>6, <1>7, <1>8 DEF Transfer

(* Hosts, power and the web server.                                         *)
LEMMA AppliedOther ==
    ASSUME ~WebDuringUpdate, ~UploadDuringUpdate, TypeInv, DeliveryInv, AppliedInv, [Next]_vars,
           ~Update
    PROVE  AppliedInv'
  <1> USE DEF Handling, Writing
  <1>i. PackageInv /\ StagingInv
    BY DEF AppliedInv
  <1>1. ASSUME NEW k \in Kinds, Upload(k) PROVE AppliedInv'
    <2>1. pc = "idle" /\ UNCHANGED <<pc, web, staged, controller>>
      BY <1>1 DEF Upload, task
    <2> QED
      BY <1>i, <2>1 DEF AppliedInv, PackageInv, StagingInv
  <1>2. CASE Request
    <2>1. UNCHANGED <<pc, web, staged, controller, aggregate, package, partition, boot, running>>
      BY <1>2 DEF Request, card, flash
    <2> QED
      BY <1>i, <2>1 DEF AppliedInv, PackageInv, StagingInv, Provided, Inactive
  <1>3. CASE PowerLoss
    <2>1. controller'.mode = "ask" /\ staged' = staged /\ pc' = "boot" /\ web' = "idle"
      BY <1>3, ResetType DEF PowerLoss, Restarted, TypeInv
    <2> QED
      BY <2>1 DEF AppliedInv, PackageInv, StagingInv
  <1>4. CASE WebRestart
    <2>1. UNCHANGED <<controller, staged>> /\ pc' = "boot" /\ web' = "idle"
      BY <1>4 DEF WebRestart, Restarted
    <2> QED
      BY <1>i, <2>1 DEF AppliedInv, PackageInv, StagingInv
  <1>5. CASE WebBegin \/ WebWrite \/ WebFails \/ WebFinish
    <2>1. UNCHANGED <<pc, staged, controller>>
      BY <1>5 DEF WebBegin, WebWrite, WebFails, WebFinish, WebStep, task
    <2>2. pc = "idle"
      BY <1>5, <1>i DEF WebBegin, WebWrite, WebFails, WebFinish, PackageInv
    <2> QED
      BY <1>i, <2>1, <2>2 DEF AppliedInv, PackageInv, StagingInv
  <1>6. CASE UNCHANGED vars
    <2>1. UNCHANGED <<pc, web, staged, controller, aggregate, package, partition, boot, running>>
      BY <1>6 DEF vars, card, flash, task
    <2> QED
      BY <1>i, <2>1 DEF AppliedInv, PackageInv, StagingInv, Provided, Inactive
  <1> QED
    BY <1>1, <1>2, <1>3, <1>4, <1>5, <1>6, AppliedTransfer DEF Next

(* Only the update task removes a package: one that it rejects, or one that *)
(* it is done with.                                                         *)
LEMMA PackageRemoved ==
    ASSUME TypeInv, [Next]_vars, aggregate # NoPackage, aggregate' = NoPackage
    PROVE  Reject \/ Remove
  <1>1. ASSUME NEW k \in Kinds, Upload(k) PROVE FALSE
    <2>1. aggregate' = [image |-> uploads + 1, kind |-> k] /\ uploads \in Nat
      BY <1>1 DEF Upload, TypeInv, TypeOK
    <2>2. aggregate'.image = uploads + 1 /\ NoPackage.image = 0
      BY <2>1 DEF NoPackage
    <2> QED
      BY <2>1, <2>2
  <1>2. ASSUME Update PROVE Reject \/ Remove
    BY <1>2 DEF Update, Boot, Take, LoadAbsent, Load, PublishMain, OtaBegin, OtaWrite, OtaFinalize,
         OtaSelect, OtaFails, Ota, FailMainboard, StageOpen, StageCopy, PersistController,
         SendReset, Restart, Restarted, card
  <1> QED
    BY <1>1, <1>2 DEF Next, Transfer, Request, PowerLoss, WebRestart, Restarted, Frame,
         MonitorTick, HandleStart, HandleGeometry, HandleData, Program, HandleComplete,
         HandleCancel, HandleTimeout, SuccessShown, WebBegin, WebWrite, WebFails, WebFinish,
         WebStep, vars, card

(* A good package is removed only when its mainboard image is selected for  *)
(* boot and its controller image is staged or was programmed, whatever      *)
(* power losses, cancels and failures of the flash, NVS, deletion and the   *)
(* exchange happen; loading and staging have to succeed, because the code   *)
(* removes a package that reads short and does not look at the results of   *)
(* staging, and the tasks have to take turns (process, stage_controller).   *)
THEOREM PackageIsApplied ==
    ASSUME ~UploadDuringUpdate, ~StageDuringTransfer, ~WebDuringUpdate,
           {"load", "stage"} \cap Faults = {}
    PROVE  Spec => AggregateIsApplied
  <1> DEFINE Applied ==
        (aggregate.kind \notin {"none", "bad"} /\ aggregate' = NoPackage) =>
          /\ HasMain(aggregate.kind) => partition[boot] = aggregate.image
          /\ HasController(aggregate.kind) => aggregate.image \in {staged, controller.program}
  <1>1. Init => DeliveryInv /\ AppliedInv
    BY DEF Init, DeliveryInv, Fetching, AppliedInv, PackageInv, StagingInv, Handling, Writing
  <1>2. TypeInv /\ DeliveryInv /\ [Next]_vars => DeliveryInv'
    BY DeliveryUpdate, DeliveryOther
  <1>3. TypeInv /\ [Next]_vars => TypeInv'
    BY UpdateType, TransferTypeNext, OtherType, StutterType DEF Next
  <1>4. TypeInv /\ DeliveryInv /\ AppliedInv /\ [Next]_vars => AppliedInv'
    BY AppliedUpdate, AppliedOther
  <1>5. TypeInv /\ AppliedInv /\ [Next]_vars => [Applied]_vars
    <2> SUFFICES ASSUME TypeInv, AppliedInv, [Next]_vars,
                        aggregate.kind \notin {"none", "bad"}, aggregate' = NoPackage
                 PROVE  /\ HasMain(aggregate.kind) => partition[boot] = aggregate.image
                        /\ HasController(aggregate.kind) =>
                              aggregate.image \in {staged, controller.program}
      OBVIOUS
    <2>1. aggregate # NoPackage
      BY DEF NoPackage
    <2>2. Remove
      BY <2>1, PackageRemoved DEF Reject, AppliedInv, PackageInv
    <2>3. pc = "remove"
      BY <2>2 DEF Remove
    <2> QED
      BY <2>3 DEF AppliedInv, PackageInv, StagingInv, Provided, Handling
  <1> QED
    BY InitType, <1>1, <1>2, <1>3, <1>4, <1>5, PTL DEF Spec, AggregateIsApplied
=============================================================================
