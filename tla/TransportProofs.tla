--------------------------- MODULE TransportProofs ---------------------------
(***************************************************************************)
(* Proofs about the tasks between the hosts and the controller: what a     *)
(* slot's helpers refer to (TcpClientWorkers), what waits for no host      *)
(* (HostOutput), what the USB host gets (UsbTransmit), when its recovery   *)
(* stops (UsbRecovery), the clock of the controller's link                 *)
(* (ControllerLink), and who owns the file channel (HostFileTransfer).     *)
(* That they also get on is for TLC.                                       *)
(***************************************************************************)
EXTENDS MCTransport, HostFileTransfer, FiniteSetTheorems, TLAPS

-----------------------------------------------------------------------------
(* The output task.  Frames are being delivered while the task is between   *)
(* its selection and the mutex.                                             *)
SelectionLeft == output \in {"tcp", "send"} => batch > 0

(* A listing only waits while somebody could get it.                        *)
ListenedTo == SomeHost(usb, client) \/ lister = "idle"

(* The assumption, limit by limit.                                          *)
LEMMA OutputLimits ==
    /\ DataLimit \in Nat \ {0} /\ OtherLimit \in Nat \ {0}
    /\ Stalls \in BOOLEAN /\ LeaveListing \in BOOLEAN
BY OutputAssumption, Zenon

(* The types of the output task but for its flags.                          *)
OutputShape ==
    /\ client \in [Slots -> {"gone", "joining", "in", "leaving"}]
    /\ data \in 0..DataLimit /\ others \in 0..OtherLimit
    /\ lister \in {"idle", "waiting"}
    /\ output \in {"select", "deliver", "tcp", "send"} /\ batch \in 0..OtherLimit + 1

LEMMA OutputTypesInductive ==
    /\ OutputInit => OutputTypeOK /\ SelectionLeft
    /\ OutputTypeOK /\ SelectionLeft /\ [OutputNext]_outputVars => (OutputTypeOK /\ SelectionLeft)'
<1>1. ASSUME OutputInit
      PROVE  OutputTypeOK /\ SelectionLeft
  <2>1. OutputShape /\ SelectionLeft
    BY <1>1, OutputLimits DEF OutputInit, OutputShape, SelectionLeft
  <2>2. locked \in BOOLEAN /\ usb \in BOOLEAN
    BY <1>1 DEF OutputInit
  <2>3. QED
    BY <2>1, <2>2 DEF OutputTypeOK, OutputShape
<1>2. ASSUME OutputTypeOK, SelectionLeft, [OutputNext]_outputVars
      PROVE  (OutputTypeOK /\ SelectionLeft)'
  <2>1. (OutputShape /\ SelectionLeft)'
    <3> USE <1>2, OutputLimits DEF OutputTypeOK, OutputShape, SelectionLeft
    <3>1. CASE \E s \in Slots : Arrive(s) \/ Depart(s)
      BY <3>1 DEF Arrive, Depart
    <3>2. CASE \E s \in Slots : Register(s)
      BY <3>2 DEF Register, purge
    <3>3. CASE UsbChanges \/ AdmitData \/ (\E purges \in BOOLEAN : AdmitOther(purges))
      BY <3>3 DEF UsbChanges, AdmitData, AdmitOther, purge
    <3>4. CASE AdmitListing \/ ListingWakes
      BY <3>4 DEF AdmitListing, ListingWakes
    <3>5. CASE Select
      BY <3>5 DEF Select, taken_data
    <3>6. CASE Delivered \/ DeliverTcp \/ LockRegistry \/ Sent
      BY <3>6 DEF Delivered, DeliverTcp, LockRegistry, Sent
    <3>7. CASE \E alsoTcp \in BOOLEAN : DeliverUsb(alsoTcp)
      BY <3>7 DEF DeliverUsb, purge
    <3>8. CASE UNCHANGED outputVars
      BY <3>8 DEF outputVars
    <3>9. QED
      BY <1>2, <3>1, <3>2, <3>3, <3>4, <3>5, <3>6, <3>7, <3>8 DEF OutputNext, OutputTask
  <2>2. (locked \in BOOLEAN /\ usb \in BOOLEAN)'
    BY <1>2, Zenon DEF OutputTypeOK, OutputNext, OutputTask, outputVars, Arrive, Depart, Register,
       UsbChanges, AdmitData, AdmitOther, AdmitListing, ListingWakes, Select, Delivered,
       DeliverUsb, DeliverTcp, LockRegistry, Sent
  <2>3. QED
    BY <2>1, <2>2 DEF OutputTypeOK, OutputShape
<1>3. QED
  BY <1>1, <1>2

(* The queues of the output scheduler stay within their limits, and the     *)
(* output task takes no more than it selected (OutputTypeOK).               *)
THEOREM OutputTypes == OutputSpec => [](OutputTypeOK /\ SelectionLeft)
BY OutputTypesInductive, PTL DEF OutputSpec

(* With the last host goes all that is not download data (NobodyNothing):   *)
(* no order of admissions, waiting listings, joins and leaves, with any     *)
(* number of slots, leaves a frame that nobody will get.  It takes that a   *)
(* listing is not waiting when the last host leaves: woken, it asks no more *)
(* whether there is one (admit_listing).                                    *)
THEOREM NothingForNobody ==
    ASSUME ~LeaveListing
    PROVE  OutputSpec => []NobodyNothing
<1>1. OutputInit => NobodyNothing /\ ListenedTo
  BY DEF OutputInit, NobodyNothing, ListenedTo
<1>2. ASSUME NobodyNothing, ListenedTo, OutputTypeOK, [OutputNext]_outputVars
      PROVE  (NobodyNothing /\ ListenedTo)'
  <2> USE <1>2, OutputLimits DEF NobodyNothing, ListenedTo
  <2>1. CASE \E s \in Slots : Arrive(s) \/ Depart(s)
    BY <2>1 DEF Arrive, Depart, SomeHost, OutputTypeOK
  <2>2. CASE \E s \in Slots : Register(s)
    BY <2>2 DEF Register, purge
  <2>3. CASE UsbChanges
    BY <2>3 DEF UsbChanges, purge
  <2>4. CASE AdmitData \/ (\E purges \in BOOLEAN : AdmitOther(purges)) \/ AdmitListing \/ ListingWakes
    BY <2>4 DEF AdmitData, AdmitOther, AdmitListing, ListingWakes
  <2>5. CASE Select \/ Delivered \/ DeliverTcp \/ LockRegistry \/ Sent
    BY <2>5 DEF Select, Delivered, DeliverTcp, LockRegistry, Sent
  <2>6. CASE \E alsoTcp \in BOOLEAN : DeliverUsb(alsoTcp)
    BY <2>6 DEF DeliverUsb, purge
  <2>7. CASE UNCHANGED outputVars
    BY <2>7 DEF outputVars
  <2>8. QED
    BY <1>2, <2>1, <2>2, <2>3, <2>4, <2>5, <2>6, <2>7 DEF OutputNext, OutputTask
<1>3. QED
  BY <1>1, <1>2, OutputTypes, PTL DEF OutputSpec

-----------------------------------------------------------------------------
(* The task of a TCP slot.  Each worker and each request notifies it once:  *)
(* what is notified and what is still to come is no more than was started.  *)
Unreported == {w \in 1..Len(workers) : workers[w].state # "deleted"}
Executing == IF busy = 0 THEN 0 ELSE 1
NotifiedOnce ==
    notified + Cardinality(Unreported) + Len(queue) + Executing <= Len(workers) + request

(* The types of the slot's task but for its flags.                          *)
ClientShape ==
    /\ task \in {"free", "serving", "nvs", "closing"}
    /\ conn \in 0..MaxConnections /\ notified \in Nat
    /\ workers \in Seq(Worker) /\ Len(workers) <= MaxExercises
    /\ request \in 0..MaxRequests /\ busy \in 0..MaxRequests
    /\ queue \in Seq(1..MaxRequests)
    /\ NotifiedOnce

LEMMA UnreportedFinite ==
    ASSUME workers \in Seq(Worker)
    PROVE  IsFiniteSet(Unreported) /\ Cardinality(Unreported) \in Nat
<1>1. Len(workers) \in Nat
  OBVIOUS
<1>2. IsFiniteSet(1..Len(workers))
  BY <1>1, FS_Interval
<1>3. Unreported \subseteq 1..Len(workers)
  BY DEF Unreported
<1>4. QED
  BY <1>2, <1>3, FS_Subset, FS_CardinalityType

(* A worker that goes on: its session is the same, nobody else changes.     *)
LEMMA WorkerMoves ==
    ASSUME workers \in Seq(Worker), NEW w \in DOMAIN workers,
           NEW x \in {"running", "reporting", "deleted"},
           workers' = [workers EXCEPT ![w].state = x]
    PROVE  /\ workers' \in Seq(Worker) /\ Len(workers') = Len(workers)
           /\ DOMAIN workers' = DOMAIN workers
           /\ \A v \in DOMAIN workers : /\ workers'[v].state = IF v = w THEN x ELSE workers[v].state
                                        /\ workers'[v].conn = workers[v].conn
<1>1. workers[w] \in Worker
  OBVIOUS
<1>2. [workers[w] EXCEPT !.state = x] \in Worker
  BY <1>1 DEF Worker
<1>3. workers' = [workers EXCEPT ![w] = [workers[w] EXCEPT !.state = x]]
  OBVIOUS
<1>4. workers' \in Seq(Worker) /\ Len(workers') = Len(workers) /\ DOMAIN workers' = DOMAIN workers
  BY <1>2, <1>3
<1>5. ASSUME NEW v \in DOMAIN workers
      PROVE  /\ workers'[v].state = IF v = w THEN x ELSE workers[v].state
             /\ workers'[v].conn = workers[v].conn
  BY <1>1, <1>3 DEF Worker
<1>6. QED
  BY <1>4, <1>5

LEMMA ClientTypesInductive ==
    /\ ClientInit => ClientShape
    /\ ClientShape /\ [ClientNext]_clientVars => ClientShape'
<1>1. ASSUME ClientInit
      PROVE  ClientShape
  <2>1. Unreported = {}
    BY <1>1 DEF ClientInit, Unreported
  <2>2. Cardinality(Unreported) = 0
    BY <2>1, FS_EmptySet
  <2>3. QED
    BY <1>1, <2>2, ClientBoundsAssumption DEF ClientInit, ClientShape, NotifiedOnce, Executing
<1>2. ASSUME ClientShape, [ClientNext]_clientVars
      PROVE  ClientShape'
  <2> USE <1>2, ClientBoundsAssumption DEF ClientShape, NotifiedOnce, Executing
  <2>0. IsFiniteSet(Unreported) /\ Cardinality(Unreported) \in Nat
    BY UnreportedFinite
  <2>1. CASE Connect \/ Close \/ Closed \/ NvsReturns
    <3>1. Unreported' = Unreported
      BY <2>1 DEF Connect, Close, Closed, NvsReturns, Unreported
    <3>2. QED
      <4>1. CASE Connect
        BY <2>0, <3>1, <4>1 DEF Connect
      <4>2. CASE Close
        BY <2>0, <3>1, <4>2 DEF Close
      <4>3. CASE Closed \/ NvsReturns
        BY SMTT(30), <2>0, <3>1, <4>3 DEF Closed, NvsReturns
      <4>4. QED
        BY <2>1, <4>1, <4>2, <4>3
  <2>2. CASE SubmitNvs \/ TakeNvs \/ FinishNvs
    <3>1. Unreported' = Unreported
      BY <2>2 DEF SubmitNvs, TakeNvs, FinishNvs, Unreported
    <3>2. CASE SubmitNvs
      BY SMTT(30), <2>0, <3>1, <3>2 DEF SubmitNvs
    <3>3. CASE TakeNvs
      BY SMTT(30), <2>0, <3>1, <3>3 DEF TakeNvs
    <3>4. CASE FinishNvs
      BY SMTT(30), <2>0, <3>1, <3>4 DEF FinishNvs
    <3>5. QED
      BY <2>2, <3>2, <3>3, <3>4
  <2>3. CASE StartExercise
    <3>1. /\ workers' \in Seq(Worker) /\ Len(workers') = Len(workers) + 1
          /\ \A w \in 1..Len(workers) : workers'[w] = workers[w]
          /\ workers'[Len(workers) + 1].state = "running"
      BY <2>3 DEF StartExercise, Worker
    <3>2. Unreported' = Unreported \cup {Len(workers) + 1}
      BY <3>1 DEF Unreported
    <3>3. Len(workers) + 1 \notin Unreported
      BY DEF Unreported
    <3>4. Cardinality(Unreported') = Cardinality(Unreported) + 1
      BY <2>0, <3>2, <3>3, FS_AddElement
    <3>5. QED
      BY SMTT(30), <2>0, <2>3, <3>1, <3>4 DEF StartExercise
  <2>4. ASSUME NEW w \in DOMAIN workers, FinishExercise(w)
        PROVE  ClientShape'
    <3>1. /\ workers' \in Seq(Worker) /\ Len(workers') = Len(workers)
          /\ \A v \in 1..Len(workers) : workers'[v].state # "deleted" <=> workers[v].state # "deleted"
      <4>1. DOMAIN workers = 1..Len(workers)
        OBVIOUS
      <4>2. /\ workers' \in Seq(Worker) /\ Len(workers') = Len(workers)
            /\ \A v \in DOMAIN workers :
                  workers'[v].state = IF v = w THEN "reporting" ELSE workers[v].state
        BY <2>4, WorkerMoves DEF FinishExercise
      <4>3. QED
        BY <2>4, <4>1, <4>2 DEF FinishExercise
    <3>2. Unreported' = Unreported
      BY <3>1 DEF Unreported
    <3>3. UNCHANGED <<task, conn, notified, request, queue, busy>>
      BY <2>4 DEF FinishExercise
    <3>4. NotifiedOnce'
      BY <2>0, <3>1, <3>2, <3>3
    <3>5. QED
      BY <3>1, <3>3, <3>4
  <2>5. ASSUME NEW w \in DOMAIN workers, ReportExercise(w)
        PROVE  ClientShape'
    <3>1. /\ workers' \in Seq(Worker) /\ Len(workers') = Len(workers)
          /\ \A v \in 1..Len(workers) : workers'[v].state = IF v = w THEN "deleted" ELSE workers[v].state
      <4>1. DOMAIN workers = 1..Len(workers)
        OBVIOUS
      <4>2. QED
        BY <2>5, <4>1, WorkerMoves DEF ReportExercise
    <3>2. Unreported' = Unreported \ {w} /\ w \in Unreported
      BY <2>5, <3>1 DEF Unreported, ReportExercise
    <3>3. Cardinality(Unreported') = Cardinality(Unreported) - 1
      BY <2>0, <3>2, FS_RemoveElement
    <3>4. /\ notified' = notified + 1
          /\ UNCHANGED <<task, conn, request, queue, busy>>
      BY <2>5 DEF ReportExercise
    <3>5. NotifiedOnce'
      BY <2>0, <3>1, <3>3, <3>4
    <3>6. QED
      BY <3>1, <3>4, <3>5
  <2>6. CASE UNCHANGED clientVars
    <3>1. Unreported' = Unreported
      BY <2>6 DEF clientVars, Unreported
    <3>2. QED
      BY <2>6, <3>1 DEF clientVars
  <2>7. QED
    BY <1>2, <2>1, <2>2, <2>3, <2>4, <2>5, <2>6 DEF ClientNext
<1>3. QED
  BY <1>1, <1>2

(* The notification value of a slot's task counts each exercise and each    *)
(* command at most once, so that it stays below what was started            *)
(* (ClientTypeOK), however the helpers and the task take turns.             *)
THEOREM ClientTypes == ClientSpec => []ClientTypeOK
<1> DEFINE Flags == handle \in BOOLEAN /\ exercising \in BOOLEAN
<1>1. ClientInit => Flags
  BY DEF ClientInit
<1>2. Flags /\ [ClientNext]_clientVars => Flags'
  BY Zenon DEF ClientNext, clientVars, Connect, StartExercise, SubmitNvs, TakeNvs, FinishNvs,
     NvsReturns, Close, Closed, FinishExercise, ReportExercise
<1>3. ASSUME ClientShape, Flags
      PROVE  ClientTypeOK
  <2>1. Cardinality(Unreported) \in Nat
    BY <1>3, UnreportedFinite DEF ClientShape
  <2>2. notified \in 0..(MaxExercises + MaxRequests)
    BY <1>3, <2>1, ClientBoundsAssumption DEF ClientShape, NotifiedOnce, Executing
  <2>3. QED
    BY <1>3, <2>2 DEF ClientShape, ClientTypeOK
<1>4. QED
  BY <1>1, <1>2, <1>3, ClientTypesInductive, PTL DEF ClientSpec

(* A worker that still runs or reports is the connection's own and the last *)
(* one started, and has not notified; the command that is waited for is in  *)
(* the queue, with the NVS worker, or has notified; a task that waits for   *)
(* nothing has no notification left over.                                   *)
OwnWorker ==
    \A w \in DOMAIN workers : workers[w].state # "deleted" =>
        /\ task \in {"serving", "closing"} /\ handle /\ notified = 0
        /\ w = Len(workers) /\ workers[w].conn = conn
OwnRequest ==
    IF task = "nvs"
    THEN /\ ~handle /\ request # 0
         /\ \/ queue = <<request>> /\ busy = 0 /\ notified = 0
            \/ queue = <<>> /\ busy = request /\ notified = 0
            \/ queue = <<>> /\ busy = 0
    ELSE queue = <<>> /\ busy = 0
NothingLeftOver ==
    /\ task = "free" \/ (task = "serving" /\ ~handle) => notified = 0
    /\ task = "closing" => handle
SlotInv == OwnWorker /\ OwnRequest /\ NothingLeftOver

(* The helpers of a slot never outlive what they use (HelpersStayInside):   *)
(* the session of an exercise and the command on the task's stack are there *)
(* until the helper has notified, for any number of connections, exercises  *)
(* and commands.  It takes that a connection runs one exercise and no NVS   *)
(* command after it: both report through the same notification.             *)
THEOREM HelpersStay ==
    ASSUME ~SecondExercise, ~NvsDuringExercise
    PROVE  ClientSpec => []HelpersStayInside
<1>1. ClientInit => SlotInv
  BY DEF ClientInit, SlotInv, OwnWorker, OwnRequest, NothingLeftOver
<1>2. ASSUME SlotInv, ClientShape, [ClientNext]_clientVars
      PROVE  SlotInv'
  <2> USE <1>2, ClientBoundsAssumption
      DEF SlotInv, OwnWorker, OwnRequest, NothingLeftOver, ClientShape
  <2>1. CASE Connect \/ Close
    BY <2>1 DEF Connect, Close
  <2>2. CASE Closed
    BY <2>2 DEF Closed
  <2>3. CASE StartExercise
    <3>1. /\ workers' \in Seq(Worker) /\ Len(workers') = Len(workers) + 1
          /\ \A w \in 1..Len(workers) : workers'[w] = workers[w]
          /\ workers'[Len(workers) + 1] = [conn |-> conn, state |-> "running"]
      BY <2>3 DEF StartExercise, Worker
    <3>2. \A w \in 1..Len(workers) : workers[w].state = "deleted"
      BY <2>3 DEF StartExercise
    <3>3. QED
      BY <2>3, <3>1, <3>2 DEF StartExercise
  <2>4. CASE SubmitNvs
    <3>1. queue = <<>> /\ busy = 0 /\ notified = 0 /\ ~handle
      BY <2>4 DEF SubmitNvs
    <3>2. queue' = <<request'>> /\ request' # 0
      BY <2>4, <3>1 DEF SubmitNvs
    <3>3. QED
      BY <2>4, <3>1, <3>2 DEF SubmitNvs
  <2>5. CASE TakeNvs
    <3>1. task = "nvs" /\ queue = <<request>> /\ notified = 0
      BY <2>5 DEF TakeNvs
    <3>2. queue' = <<>> /\ busy' = request
      BY <2>5, <3>1 DEF TakeNvs
    <3>3. QED
      BY <2>5, <3>1, <3>2 DEF TakeNvs
  <2>6. CASE FinishNvs
    BY <2>6 DEF FinishNvs
  <2>7. CASE NvsReturns
    BY <2>7 DEF NvsReturns
  <2>8. ASSUME NEW w \in DOMAIN workers, FinishExercise(w)
        PROVE  SlotInv'
    <3>1. /\ Len(workers') = Len(workers)
          /\ DOMAIN workers' = DOMAIN workers
          /\ \A v \in DOMAIN workers : /\ workers'[v].state # "deleted" <=> workers[v].state # "deleted"
                                       /\ workers'[v].conn = workers[v].conn
      BY <2>8, WorkerMoves DEF FinishExercise
    <3>2. QED
      BY <2>8, <3>1 DEF FinishExercise
  <2>9. ASSUME NEW w \in DOMAIN workers, ReportExercise(w)
        PROVE  SlotInv'
    <3>1. /\ DOMAIN workers' = DOMAIN workers
          /\ \A v \in DOMAIN workers : workers'[v].state = IF v = w THEN "deleted" ELSE workers[v].state
      BY <2>9, WorkerMoves DEF ReportExercise
    <3>2. \A v \in DOMAIN workers' : workers'[v].state = "deleted"
      BY <2>9, <3>1 DEF ReportExercise
    <3>3. QED
      BY <2>9, <3>2 DEF ReportExercise
  <2>10. CASE UNCHANGED clientVars
    BY <2>10 DEF clientVars
  <2>11. QED
    BY <1>2, <2>1, <2>2, <2>3, <2>4, <2>5, <2>6, <2>7, <2>8, <2>9, <2>10 DEF ClientNext
<1>3. SlotInv /\ ClientShape => HelpersStayInside
  BY DEF SlotInv, OwnWorker, OwnRequest, ClientShape, Worker,
         HelpersStayInside, SessionOutlivesWorker, NvsRequestAlive
<1>4. QED
  BY <1>1, <1>2, <1>3, ClientTypesInductive, PTL DEF ClientSpec

-----------------------------------------------------------------------------
(* The recovery of a USB host.  Whatever is still to be told of a bus that  *)
(* is up ends with its coming up; a bus is up only while the input is high; *)
(* the input is low while poll has the disconnection behind it and not yet  *)
(* ended it.  Only a poll that has just stored its next phase may have one  *)
(* under way on a bus that is up and quiet, and then it takes the bus down. *)
Polling == {"loaded", "due"}
Storing == {"stored", "drive"}
UpIsToldLast ==
    bus = "configured" /\ events # <<>> => events[Len(events)] \in {"mount", "resume"}
UpNeedsInput == bus # "off" => bvalid
HeldIsLow ==
    /\ phase = "holding_disconnected" /\ poller \in {"idle"} \cup Polling => ~bvalid
    /\ seen = "holding_disconnected" /\ poller # "idle" => ~bvalid
    /\ seen = "holding_disconnected" /\ poller \in Storing => phase # "holding_disconnected"
QuietIsInactive ==
    bus = "configured" /\ events = <<>> /\ poller \in {"idle"} \cup Polling => phase = "inactive"
QuietInv == UpIsToldLast /\ UpNeedsInput /\ HeldIsLow /\ QuietIsInactive

RecoveryShape ==
    /\ bus \in {"off", "configured", "suspended"}
    /\ events \in Seq({"mount", "umount", "suspend", "resume"}) /\ Len(events) <= MaxEvents + 1
    /\ callback \in {"none", "lost", "restored"}
    /\ phase \in Phases
    /\ poller \in {"idle", "loaded", "due", "stored", "drive"} /\ seen \in Phases

LEMMA RecoveryShapeInductive ==
    /\ RecoveryInit => RecoveryShape
    /\ RecoveryShape /\ [RecoveryNext]_recoveryVars => RecoveryShape'
<1> USE RecoveryAssumption DEF RecoveryShape, Phases
<1>1. RecoveryInit => RecoveryShape
  BY DEF RecoveryInit
<1>2. ASSUME RecoveryShape, [RecoveryNext]_recoveryVars
      PROVE  RecoveryShape'
  <2>1. CASE Plug \/ DeadlinePasses \/ LostDeadline \/ RestoredDeadline
    BY <1>2, <2>1 DEF Plug, DeadlinePasses, LostDeadline, RestoredDeadline
  <2>2. CASE Enumerate \/ ResumeBus \/ \E unplug \in BOOLEAN : SuspendBus(unplug)
    BY <1>2, <2>2 DEF Enumerate, ResumeBus, SuspendBus, Tell
  <2>3. CASE ConnectionLost \/ ConnectionRestored
    BY <1>2, <2>3 DEF ConnectionLost, ConnectionRestored
  <2>4. CASE PollPhase \/ PollDeadline \/ PollStore \/ PollRetry
    BY <1>2, <2>4 DEF PollPhase, PollDeadline, PollStore, PollRetry, next_phase
  <2>5. CASE DriveBvalid
    <3>1. events' \in Seq({"mount", "umount", "suspend", "resume"}) /\ Len(events') <= MaxEvents + 1
      BY <1>2, <2>5 DEF DriveBvalid
    <3>2. QED
      BY <1>2, <2>5, <3>1 DEF DriveBvalid
  <2>6. CASE UNCHANGED recoveryVars
    BY <1>2, <2>6 DEF recoveryVars
  <2>7. QED
    BY <1>2, <2>1, <2>2, <2>3, <2>4, <2>5, <2>6 DEF RecoveryNext, RecoveryCallbacks, RecoveryPoll
<1>3. QED
  BY <1>1, <1>2

(* The variables of the recovery keep their types, and the events the bus   *)
(* has to tell stay within their bound and the one of a new enumeration     *)
(* (RecoveryTypeOK).                                                        *)
THEOREM RecoveryTypes == RecoverySpec => []RecoveryTypeOK
<1> DEFINE Flags == plugged \in BOOLEAN /\ bvalid \in BOOLEAN /\ due \in BOOLEAN
<1>1. RecoveryInit => Flags
  BY DEF RecoveryInit
<1>2. Flags /\ [RecoveryNext]_recoveryVars => Flags'
  BY Zenon DEF RecoveryNext, RecoveryCallbacks, RecoveryPoll, recoveryVars, Plug, Enumerate,
     ResumeBus, SuspendBus, ConnectionLost, LostDeadline, ConnectionRestored, RestoredDeadline,
     DeadlinePasses, PollPhase, PollDeadline, PollStore, PollRetry, DriveBvalid
<1>3. RecoveryShape /\ Flags => RecoveryTypeOK
  BY Zenon DEF RecoveryShape, RecoveryTypeOK
<1>4. QED
  BY <1>1, <1>2, <1>3, RecoveryShapeInductive, PTL DEF RecoverySpec

LEMMA QuietInductive ==
    ASSUME QuietInv, RecoveryShape, [RecoveryNext]_recoveryVars
    PROVE  QuietInv'
<1> USE DEF QuietInv, UpIsToldLast, UpNeedsInput, HeldIsLow, QuietIsInactive, RecoveryShape,
        Phases, Polling, Storing
<1>1. CASE Plug \/ DeadlinePasses \/ LostDeadline \/ RestoredDeadline
  BY <1>1 DEF Plug, DeadlinePasses, LostDeadline, RestoredDeadline
<1>2. CASE Enumerate \/ ResumeBus \/ \E unplug \in BOOLEAN : SuspendBus(unplug)
  BY <1>2 DEF Enumerate, ResumeBus, SuspendBus, Tell
<1>3. CASE ConnectionLost
  <2>1. ASSUME bus = "configured", events' = <<>>
        PROVE  FALSE
    <3>1. events # <<>> /\ events' = Tail(events) /\ events[1] \in {"umount", "suspend"}
      BY <1>3 DEF ConnectionLost
    <3>2. Len(events) = 1
      <4>1. Len(Tail(events)) = Len(events) - 1 /\ Len(events) \in Nat
        BY <3>1
      <4>2. Tail(events) = <<>>
        BY <2>1, <3>1, Zenon
      <4>3. Len(Tail(events)) = 0
        <5>1. Len(<<>>) = 0
          OBVIOUS
        <5>2. QED
          BY <4>2, <5>1, Zenon
      <4>4. QED
        BY <4>1, <4>3
    <3>3. QED
      BY <2>1, <3>1, <3>2
  <2>2. bus = "configured" => events'[Len(events')] \in {"mount", "resume"}
    BY <1>3, <2>1 DEF ConnectionLost
  <2>3. QED
    BY <1>3, <2>1, <2>2 DEF ConnectionLost
<1>4. CASE ConnectionRestored
  BY <1>4 DEF ConnectionRestored
<1>5. CASE PollPhase \/ PollDeadline \/ PollStore \/ PollRetry
  BY <1>5 DEF PollPhase, PollDeadline, PollStore, PollRetry, next_phase
<1>6. CASE DriveBvalid
  <2>1. seen = "holding_disconnected" => bus = "off" /\ phase # "holding_disconnected"
    BY <1>6 DEF DriveBvalid
  <2>2. bus' = "off"
    BY <1>6, <2>1 DEF DriveBvalid
  <2>3. phase' = "holding_disconnected" => ~bvalid'
    BY <1>6, <2>1 DEF DriveBvalid
  <2>4. poller' = "idle"
    BY <1>6 DEF DriveBvalid
  <2>5. QED
    BY <2>2, <2>3, <2>4
<1>7. CASE UNCHANGED recoveryVars
  BY <1>7 DEF recoveryVars
<1>8. QED
  BY <1>1, <1>2, <1>3, <1>4, <1>5, <1>6, <1>7 DEF RecoveryNext, RecoveryCallbacks, RecoveryPoll

(* No recovery is left armed on a connection that is up and quiet           *)
(* (LiveIsLeftAlone), wherever the callbacks of TinyUSB fall between the    *)
(* loads and stores of poll, with any number of events on the way.  The     *)
(* phase alone does not tell: poll may store over connection_restored, but  *)
(* then the input it drives takes the bus down or was low already.          *)
THEOREM LiveStaysAlone == RecoverySpec => []LiveIsLeftAlone
<1>1. RecoveryInit => QuietInv
  BY DEF RecoveryInit, QuietInv, UpIsToldLast, UpNeedsInput, HeldIsLow, QuietIsInactive, Storing
<1>2. QuietInv => LiveIsLeftAlone
  BY DEF QuietInv, QuietIsInactive, LiveIsLeftAlone
<1>3. QED
  BY <1>1, <1>2, QuietInductive, RecoveryShapeInductive, PTL DEF RecoverySpec

-----------------------------------------------------------------------------
(* Frames to the USB host.  The poll between front() and the write has a    *)
(* frame in hand, or one that was taken away under it.                      *)
TransmitShape ==
    /\ attached \in {"off", "reset", "appearing", "on", "leaving", "gone"}
    /\ receiver \in {"idle", "seen"} /\ producer \in {"idle", "waiting"}
    /\ frames \in Seq(Ids) /\ Len(frames) <= QueueLimit /\ nextId \in Ids
    /\ drain \in {"idle", "front"} /\ sentParts \in 0..FrameSize - 1
    /\ wire.frame \in Ids /\ wire.from \in 0..FrameSize /\ wire.to \in 0..FrameSize
    /\ wire = [frame |-> wire.frame, from |-> wire.from, to |-> wire.to, whole |-> wire.whole]
    /\ drain = "front" => dangling \/ frames # <<>>
TransmitFlags ==
    /\ present \in BOOLEAN /\ proto \in BOOLEAN /\ failed \in BOOLEAN /\ tracked \in BOOLEAN
    /\ dangling \in BOOLEAN /\ spoken \in BOOLEAN /\ wire.whole \in BOOLEAN

LEMMA TransmitShapeInductive ==
    /\ TransmitInit => TransmitShape
    /\ TransmitShape /\ [TransmitNext]_transmitVars => TransmitShape'
<1> USE TransmitAssumption
<1>1. TransmitInit => TransmitShape
  BY DEF TransmitInit, TransmitShape, Ids
<1>2. ASSUME TransmitShape, [TransmitNext]_transmitVars
      PROVE  TransmitShape'
  <2> USE <1>2 DEF TransmitShape, flags, polling
  <2>0. <<>> \in Seq(Ids) /\ Len(<<>>) = 0 /\ Len(<<>>) <= QueueLimit
    OBVIOUS
  <2>1. CASE EnumeratedResets \/ EnumeratedAppears \/ EnumeratedSilent
    BY <2>1 DEF EnumeratedResets, EnumeratedAppears, EnumeratedSilent
  <2>2. CASE DisconnectedLeaves \/ DisconnectedSilent \/ FrameReceived \/ FrameActivates
    BY <2>2 DEF DisconnectedLeaves, DisconnectedSilent, FrameReceived, FrameActivates
  <2>3. CASE DisconnectedClears \/ EnqueueTimesOut
    <3>1. /\ frames' = <<>> /\ producer' \in {"idle", "waiting"}
          /\ attached' \in {"off", attached}
          /\ UNCHANGED <<receiver, nextId, drain, sentParts, wire>>
      BY <2>3 DEF DisconnectedClears, EnqueueTimesOut, Clear
    <3>2. drain = "front" => dangling'
      BY <2>3 DEF DisconnectedClears, EnqueueTimesOut, Clear
    <3>3. QED
      BY <2>0, <3>1, <3>2
  <2>4. CASE Enqueue \/ EnqueueWakes
    <3>1. /\ frames' = Append(frames, nextId) /\ Len(frames) < QueueLimit
          /\ nextId' = (nextId + 1) % FrameIds /\ producer' = "idle"
          /\ UNCHANGED <<attached, receiver, drain, sentParts, wire, dangling>>
      BY <2>4 DEF Enqueue, EnqueueWakes, Push, Room
    <3>2. nextId' \in Ids
      BY SMTT(30), <3>1 DEF Ids
    <3>3. frames' \in Seq(Ids) /\ Len(frames') <= QueueLimit /\ frames' # <<>>
      BY <3>1
    <3>4. QED
      BY <3>1, <3>2, <3>3
  <2>5. CASE EnqueueWaits
    BY <2>5 DEF EnqueueWaits
  <2>6. CASE PollCannotSend \/ PollFront
    <3>1. /\ UNCHANGED <<attached, receiver, producer, nextId, wire>>
          /\ frames' = frames \/ frames' = <<>>
          /\ sentParts' = sentParts \/ sentParts' = 0
          /\ drain' = "idle" \/ (drain' = "front" /\ frames # <<>> /\ frames' = frames)
      BY <2>6 DEF PollCannotSend, PollFront
    <3>2. frames' \in Seq(Ids) /\ Len(frames') <= QueueLimit
      BY <2>0, <3>1, Zenon
    <3>3. QED
      BY <3>1, <3>2
  <2>7. CASE PollBlocked \/ PollExpires
    <3>1. /\ UNCHANGED <<attached, receiver, producer, nextId, wire>> /\ drain' = "idle"
          /\ frames' = frames \/ frames' = <<>>
          /\ sentParts' = sentParts \/ sentParts' = 0
      BY <2>7 DEF PollBlocked, PollExpires
    <3>2. frames' \in Seq(Ids) /\ Len(frames') <= QueueLimit
      BY <2>0, <3>1, Zenon
    <3>3. QED
      BY <3>1, <3>2
  <2>8. ASSUME NEW n \in 1..FrameSize, PollWrites(n)
        PROVE  TransmitShape'
    <3>1. /\ drain' = "idle" /\ UNCHANGED <<attached, receiver, producer, nextId>>
          /\ sentParts' \in 0..FrameSize - 1
          /\ frames' = frames \/ (frames # <<>> /\ frames' = Tail(frames))
      BY <2>8 DEF PollWrites
    <3>2. frames' \in Seq(Ids) /\ Len(frames') <= QueueLimit
      <4>1. CASE frames' = frames
        BY <4>1
      <4>2. CASE frames # <<>> /\ frames' = Tail(frames)
        BY <4>2
      <4>3. QED
        BY <3>1, <4>1, <4>2
    <3>3. /\ wire' = [frame |-> wire'.frame, from |-> wire'.from, to |-> wire'.to, whole |-> wire'.whole]
          /\ wire'.from \in 0..FrameSize /\ wire'.to \in 0..FrameSize
      BY <2>8 DEF PollWrites
    <3>4. wire'.frame \in Ids
      BY <2>8 DEF PollWrites
    <3>5. QED
      BY <3>1, <3>2, <3>3, <3>4
  <2>9. CASE UNCHANGED transmitVars
    BY <2>9 DEF transmitVars
  <2>10. QED
    BY <1>2, <2>1, <2>2, <2>3, <2>4, <2>5, <2>6, <2>7, <2>8, <2>9
       DEF TransmitNext, MountCallback, UnmountCallback, TransmitPoll, PollAdvances
<1>3. QED
  BY <1>1, <1>2

LEMMA TransmitFlagsKept ==
    /\ TransmitInit => TransmitFlags
    /\ TransmitFlags /\ [TransmitNext]_transmitVars => TransmitFlags'
<1>1. TransmitInit => TransmitFlags
  <2>1. TransmitInit => wire.whole = TRUE
    BY DEF TransmitInit
  <2>2. QED
    BY <2>1, Zenon DEF TransmitInit, TransmitFlags
<1>2. TransmitFlags /\ [TransmitNext]_transmitVars => TransmitFlags'
  <2> SUFFICES ASSUME TransmitFlags, [TransmitNext]_transmitVars
               PROVE  TransmitFlags'
    OBVIOUS
  <2>1. /\ present' \in BOOLEAN /\ proto' \in BOOLEAN /\ failed' \in BOOLEAN /\ tracked' \in BOOLEAN
        /\ dangling' \in BOOLEAN /\ spoken' \in BOOLEAN
    BY Zenon DEF TransmitFlags, TransmitNext, MountCallback, UnmountCallback, TransmitPoll,
       PollAdvances, transmitVars, flags, polling, EnumeratedResets, EnumeratedAppears,
       EnumeratedSilent, DisconnectedLeaves, DisconnectedSilent, FrameReceived, FrameActivates,
       DisconnectedClears, EnqueueTimesOut, Clear, Enqueue, EnqueueWakes, Push, EnqueueWaits,
       PollCannotSend, PollFront, PollBlocked, PollExpires, PollWrites
  <2>2. wire' = wire \/ wire'.whole = ~dangling
    <3>1. ASSUME NEW n \in 1..FrameSize, PollWrites(n)
          PROVE  wire'.whole = ~dangling
      BY <3>1 DEF PollWrites
    <3>2. QED
      BY <3>1 DEF TransmitNext, MountCallback, UnmountCallback, TransmitPoll,
       PollAdvances, transmitVars, flags, polling, EnumeratedResets, EnumeratedAppears,
       EnumeratedSilent, DisconnectedLeaves, DisconnectedSilent, FrameReceived, FrameActivates,
       DisconnectedClears, EnqueueTimesOut, Enqueue, EnqueueWakes, Push, EnqueueWaits,
       PollCannotSend, PollFront, PollBlocked, PollExpires
  <2>3. wire'.whole \in BOOLEAN
    BY <2>2, Zenon DEF TransmitFlags
  <2>4. QED
    BY <2>1, <2>3, Zenon DEF TransmitFlags
<1>3. QED
  BY <1>1, <1>2

(* The queue stays within its limit, and the poll within the frame it sends *)
(* (TransmitTypeOK), whatever may happen in the middle of what.             *)
THEOREM TransmitTypes == TransmitSpec => []TransmitTypeOK
<1>1. ASSUME TransmitShape, TransmitFlags
      PROVE  TransmitTypeOK
  <2>1. wire \in [frame : Ids, from : 0..FrameSize, to : 0..FrameSize, whole : BOOLEAN]
    BY <1>1, Zenon DEF TransmitShape, TransmitFlags
  <2>2. QED
    BY <1>1, <2>1, Zenon DEF TransmitShape, TransmitFlags, TransmitTypeOK
<1>2. QED
  BY <1>1, TransmitFlagsKept, TransmitShapeInductive, PTL DEF TransmitSpec

(* A poll that has a frame in hand has it from a host that was mounted,     *)
(* spoke and is not given up; that host may be leaving.                     *)
InHand ==
    /\ ~dangling
    /\ drain = "front" =>
          /\ attached \in {"on", "leaving", "gone"} /\ ~failed /\ tracked
          /\ frames # <<>> /\ spoken
SpokenInv ==
    /\ receiver = "seen" => attached = "on" /\ spoken
    /\ proto => attached \in {"on", "leaving"} /\ spoken
    /\ present => attached \in {"appearing", "on"}

(* Pieces that are sent are pieces of the oldest frame, the last of them    *)
(* the last write, unless the queue was cleared: then no host is mounted, or*)
(* it was given up, until the poll has stopped following.                   *)
Following ==
    /\ attached \in {"reset", "appearing"} => ~tracked
    /\ sentParts > 0 =>
         /\ tracked
         /\ \/ failed \/ attached = "off"
            \/ frames # <<>> /\ wire.frame = Head(frames) /\ wire.to = sentParts
DeliveryInv == InHand /\ SpokenInv /\ Following

LEMMA DeliveryInductive ==
    ASSUME Overlaps = {}, TransmitShape, TransmitFlags, DeliveryInv, [TransmitNext]_transmitVars
    PROVE  DeliveryInv'
<1> USE TransmitAssumption DEF DeliveryInv, InHand, SpokenInv, Following, TransmitShape, flags, polling
<1>1. CASE EnumeratedResets \/ EnumeratedAppears \/ EnumeratedSilent
  BY <1>1 DEF EnumeratedResets, EnumeratedAppears, EnumeratedSilent, Steady
<1>2. CASE DisconnectedLeaves \/ DisconnectedSilent
  BY <1>2 DEF DisconnectedLeaves, DisconnectedSilent, Steady
<1>3. CASE FrameReceived \/ FrameActivates
  BY <1>3 DEF FrameReceived, FrameActivates
<1>4. CASE DisconnectedClears \/ EnqueueTimesOut
  <2>1. drain = "idle" /\ frames' = <<>> /\ ~dangling'
    BY <1>4 DEF DisconnectedClears, EnqueueTimesOut, Clear
  <2>2. CASE DisconnectedClears
    <3>1. /\ attached = "gone" /\ attached' = "off"
          /\ UNCHANGED <<present, proto, receiver, spoken, failed, drain, tracked, sentParts>>
      BY <2>2 DEF DisconnectedClears
    <3>2. QED
      BY <2>1, <3>1
  <2>3. CASE EnqueueTimesOut
    <3>1. failed' /\ UNCHANGED <<attached, present, proto, receiver, spoken, drain, tracked, sentParts>>
      BY <2>3 DEF EnqueueTimesOut
    <3>2. QED
      BY <2>1, <3>1
  <2>4. QED
    BY <1>4, <2>2, <2>3
<1>5. CASE Enqueue \/ EnqueueWakes
  <2>1. /\ frames' = Append(frames, nextId)
        /\ UNCHANGED <<attached, present, proto, receiver, spoken, failed, drain, tracked, sentParts, wire, dangling>>
    BY <1>5 DEF Enqueue, EnqueueWakes, Push
  <2>2. frames' # <<>> /\ (frames # <<>> => Head(frames') = Head(frames))
    BY SMTT(30), <2>1
  <2>3. QED
    BY <2>1, <2>2
<1>6. CASE EnqueueWaits
  BY <1>6 DEF EnqueueWaits
<1>7. CASE PollCannotSend
  BY <1>7 DEF PollCannotSend
<1>8. CASE PollFront
  <2>1. /\ present /\ proto /\ ~failed
        /\ UNCHANGED <<attached, present, proto, receiver, spoken, frames, failed, dangling, wire>>
        /\ drain = "idle" /\ drain' = IF frames = <<>> THEN "idle" ELSE "front"
        /\ tracked' = (frames # <<>>)
        /\ sentParts' = IF tracked /\ frames # <<>> THEN sentParts ELSE 0
    BY <1>8 DEF PollFront, can_send
  <2>2. attached = "on" /\ spoken
    BY <2>1
  <2>3. frames = <<>> => sentParts' = 0 /\ drain' = "idle"
    BY <2>1
  <2>4. CASE frames = <<>>
    BY <2>1, <2>2, <2>3, <2>4
  <2>5. CASE frames # <<>>
    <3>1. drain' = "front" /\ tracked'
      BY <2>1, <2>5, Zenon
    <3>2. InHand' /\ SpokenInv'
      BY <2>1, <2>2, <2>5, <3>1
    <3>3. sentParts' > 0 => sentParts' = sentParts /\ tracked
      BY <2>1, <2>5
    <3>4. attached' = "on" /\ ~failed'
      BY <2>1, <2>2
    <3>5. sentParts' > 0 => frames' # <<>> /\ wire'.frame = Head(frames') /\ wire'.to = sentParts'
      BY <2>1, <2>2, <3>3
    <3>6. Following'
      BY <3>1, <3>4, <3>5
    <3>7. QED
      BY <3>2, <3>6
  <2>6. QED
    BY <2>4, <2>5
<1>9. CASE PollBlocked \/ PollExpires
  BY <1>9 DEF PollBlocked, PollExpires
<1>10. ASSUME NEW n \in 1..FrameSize, PollWrites(n)
       PROVE  DeliveryInv'
  <2> DEFINE to == sentParts + n
  <2>1. /\ drain = "front" /\ drain' = "idle" /\ ~dangling' /\ to <= FrameSize
        /\ UNCHANGED <<attached, present, proto, receiver, spoken, failed>>
        /\ wire' = [frame |-> Head(frames), from |-> sentParts + 1, to |-> to, whole |-> TRUE]
        /\ to < FrameSize => sentParts' = to /\ frames' = frames /\ tracked' = tracked
        /\ ~(to < FrameSize) => sentParts' = 0 /\ tracked' = FALSE
    BY <1>10 DEF PollWrites
  <2>2. wire'.frame = Head(frames) /\ wire'.to = to
    BY <2>1
  <2>3. CASE to < FrameSize
    BY <2>1, <2>2, <2>3
  <2>4. CASE ~(to < FrameSize)
    BY <2>1, <2>4
  <2>5. QED
    BY <2>3, <2>4
<1>11. CASE UNCHANGED transmitVars
  BY <1>11 DEF transmitVars
<1>12. QED
  BY <1>1, <1>2, <1>3, <1>4, <1>5, <1>6, <1>7, <1>8, <1>9, <1>10, <1>11
     DEF TransmitNext, MountCallback, UnmountCallback, TransmitPoll, PollAdvances

(* What the USB host gets is whole (TailAfterHead): no piece of a frame     *)
(* without the pieces before it, nothing of a frame that is gone, for any   *)
(* queue limit and frame size.  It takes that callbacks and an expired      *)
(* enqueue do not clear the queue in the middle of a poll (Overlaps).       *)
THEOREM UsbFramesAreWhole ==
    ASSUME Overlaps = {}
    PROVE  TransmitSpec => TailAfterHead
<1>1. TransmitInit => DeliveryInv
  BY TransmitAssumption DEF TransmitInit, DeliveryInv, InHand, SpokenInv, Following
<1>2. ASSUME DeliveryInv, TransmitShape, [TransmitNext]_transmitVars
      PROVE  [wire' # wire =>
                 /\ wire'.whole
                 /\ wire'.from = 1 \/ (wire.frame = wire'.frame /\ wire'.from = wire.to + 1)]_transmitVars
  <2>1. ASSUME NEW n \in 1..FrameSize, PollWrites(n)
        PROVE  /\ wire'.whole
               /\ wire'.from = 1 \/ (wire.frame = wire'.frame /\ wire'.from = wire.to + 1)
    <3>1. /\ ~dangling /\ ~failed /\ attached # "off" /\ sentParts \in Nat
          /\ sentParts > 0 => wire.frame = Head(frames) /\ wire.to = sentParts
      BY SMTT(30), <1>2, <2>1, TransmitAssumption
         DEF PollWrites, DeliveryInv, InHand, Following, TransmitShape
    <3>2. wire'.whole /\ wire'.from = sentParts + 1 /\ wire'.frame = Head(frames)
      BY <2>1, <3>1 DEF PollWrites
    <3>3. QED
      BY <3>1, <3>2
  <2>2. QED
    BY <1>2, <2>1 DEF TransmitNext, MountCallback, UnmountCallback, TransmitPoll,
       PollAdvances, transmitVars, flags, polling, EnumeratedResets, EnumeratedAppears,
       EnumeratedSilent, DisconnectedLeaves, DisconnectedSilent, FrameReceived, FrameActivates,
       DisconnectedClears, EnqueueTimesOut, Enqueue, EnqueueWakes, Push, EnqueueWaits,
       PollCannotSend, PollFront, PollBlocked, PollExpires
<1>3. QED
  BY <1>1, <1>2, DeliveryInductive, TransmitShapeInductive, TransmitFlagsKept, PTL
     DEF TransmitSpec, TailAfterHead

(* Nothing is written to a host before its first valid frame                *)
(* (SpokenToFirst): neither the frame of an earlier host that waits in the  *)
(* queue nor a callback that is late makes one be taken for a host that     *)
(* spoke, as long as a received frame is stored before the bus changes.     *)
THEOREM UsbHostSpokeFirst ==
    ASSUME Overlaps = {}
    PROVE  TransmitSpec => SpokenToFirst
<1>1. TransmitInit => DeliveryInv
  BY TransmitAssumption DEF TransmitInit, DeliveryInv, InHand, SpokenInv, Following
<1>2. ASSUME DeliveryInv, [TransmitNext]_transmitVars
      PROVE  [wire' # wire => spoken]_transmitVars
  <2>1. ASSUME NEW n \in 1..FrameSize, PollWrites(n)
        PROVE  spoken
    BY <1>2, <2>1 DEF PollWrites, DeliveryInv, InHand
  <2>2. QED
    BY <1>2, <2>1 DEF TransmitNext, MountCallback, UnmountCallback, TransmitPoll,
       PollAdvances, transmitVars, flags, polling, EnumeratedResets, EnumeratedAppears,
       EnumeratedSilent, DisconnectedLeaves, DisconnectedSilent, FrameReceived, FrameActivates,
       DisconnectedClears, EnqueueTimesOut, Enqueue, EnqueueWakes, Push, EnqueueWaits,
       PollCannotSend, PollFront, PollBlocked, PollExpires
<1>3. QED
  BY <1>1, <1>2, DeliveryInductive, TransmitShapeInductive, TransmitFlagsKept, PTL
     DEF TransmitSpec, SpokenToFirst

-----------------------------------------------------------------------------
(* The controller's link.  Deadlines move by whole periods.                 *)

(* Division of what is late by a period, as Missed does it.                 *)
LEMMA WholePeriods ==
    ASSUME NEW x \in Nat, NEW p \in Nat \ {0}
    PROVE  x \div p \in Nat /\ (x \div p) * p <= x /\ x < (x \div p) * p + p
<1>1. x \div p \in Int /\ x % p \in 0..p - 1
  BY SMT
<1>2. x = p * (x \div p) + (x % p)
  BY SMT
<1>3. p * (x \div p) = (x \div p) * p
  BY <1>1
<1>4. x \div p \in Nat
  BY SMT
<1>5. (x \div p) * p \in Int
  BY <1>1
<1>6. QED
  BY <1>1, <1>2, <1>3, <1>4, <1>5

(* A multiple of a number leaves no remainder.                              *)
LEMMA MultipleIsEven ==
    ASSUME NEW k \in Int, NEW p \in Nat \ {0}
    PROVE  (k * p) % p = 0
BY SMT

LEMMA PositiveProduct ==
    ASSUME NEW x \in Nat \ {0}, NEW y \in Nat \ {0}
    PROVE  x * y \in Nat \ {0}
BY SMT

(* The assumption, number by number.                                        *)
LEMMA LinkLimits ==
    /\ Capacity \in Nat \ {0} /\ WriteInterval \in Nat \ {0} /\ AlarmPeriod \in Nat \ {0}
    /\ StatusPeriod \in Nat \ {0} /\ DiagnosticPeriod \in Nat \ {0} /\ Lateness \in Nat \ {0}
    /\ SlowWrites \in BOOLEAN /\ HeardKinds \subseteq Kinds
BY LinkAssumption, Zenon

(* consume_due_opportunity: the deadline comes to lie ahead, within one     *)
(* period, and has moved by whole periods; one ahead stays.                 *)
LEMMA AdvancedAhead ==
    ASSUME NEW left \in Int, NEW p \in Nat \ {0}, left <= p
    PROVE  /\ Missed(left, p) \in Nat
           /\ Advanced(left, p) = left + Missed(left, p) * p
           /\ Advanced(left, p) \in 1..p
<1>1. CASE left > 0
  BY <1>1 DEF Missed, Advanced
<1>2. CASE left <= 0
  <2> DEFINE n == (-left) \div p
  <2>1. n \in Nat /\ n * p <= -left /\ -left < n * p + p
    BY <1>2, WholePeriods
  <2>2. Missed(left, p) = n + 1
    BY <1>2 DEF Missed
  <2>3. n * p \in Nat /\ (n + 1) * p = n * p + p
    BY <2>1
  <2>4. Advanced(left, p) = left + (n * p + p)
    BY <2>2, <2>3 DEF Advanced
  <2> HIDE DEF n
  <2>5. QED
    BY <1>2, <2>1, <2>2, <2>3, <2>4 DEF Advanced
<1>3. QED
  BY <1>1, <1>2

LEMMA AdvancedRange ==
    \A p \in Nat \ {0} : \A left \in Int : left <= p => Advanced(left, p) \in 1..p
BY AdvancedAhead

(* Time passes a deadline: by one, or by one less a period.                 *)
LEMMA LaterBy ==
    ASSUME NEW p \in Nat \ {0}, NEW left \in -Lateness..p
    PROVE  /\ Later(left, p) \in -Lateness..p
           /\ \E n \in {0, 1} : Later(left, p) = left - 1 + n * p
BY LinkLimits DEF Later

(* The silence no alarm told of is what has passed of the alarm's period.   *)
SilenceTold == unreported + alarmIn = AlarmPeriod
LinkShape == LinkTypeOK /\ SilenceTold

LEMMA SilencePasses ==
    ASSUME LinkShape, LinkTick
    PROVE  unreported' + alarmIn' = AlarmPeriod /\ unreported' \in Nat
<1>1. unreported' = unreported + alarmIn - alarmIn'
  BY DEF LinkTick
<1>2. alarmIn' \in -Lateness..AlarmPeriod
  BY LinkLimits, LaterBy DEF LinkTick, LinkShape, LinkTypeOK
<1>3. unreported \in Int /\ alarmIn \in Int /\ unreported + alarmIn = AlarmPeriod
  BY LinkLimits DEF LinkShape, LinkTypeOK, SilenceTold
<1>4. alarmIn' \in Int /\ alarmIn' <= AlarmPeriod
  BY <1>2, LinkLimits
<1>5. AlarmPeriod \in Int
  BY LinkLimits
<1>6. ASSUME NEW y \in Int, y <= AlarmPeriod
      PROVE  (unreported + alarmIn - y) + y = AlarmPeriod /\ unreported + alarmIn - y \in Nat
  BY <1>3, <1>5, <1>6
<1>7. /\ (unreported + alarmIn - alarmIn') + alarmIn' = AlarmPeriod
      /\ unreported + alarmIn - alarmIn' \in Nat
  BY <1>4, <1>6, Zenon
<1>8. QED
  BY <1>1, <1>7, Zenon

LEMMA LinkShapeInductive ==
    /\ LinkInit => LinkShape
    /\ LinkShape /\ [LinkNext]_linkVars => LinkShape'
<1> USE LinkLimits
<1>0. StatusPeriod * DiagnosticPeriod \in Nat \ {0}
  BY PositiveProduct
<1>1. LinkInit => LinkShape
  BY <1>0 DEF LinkInit, LinkShape, LinkTypeOK, SilenceTold, Queries, Period
<1>2. ASSUME LinkShape, [LinkNext]_linkVars
      PROVE  LinkShape'
  <2> USE <1>2 DEF LinkShape, LinkTypeOK, SilenceTold
  <2>1. CASE LinkStart
    BY <2>1 DEF LinkStart
  <2>2. CASE LinkTick
    <3>1. alarmIn' \in -Lateness..AlarmPeriod
      BY <2>2, LaterBy DEF LinkTick
    <3>2. \A q \in Queries : queryIn'[q] \in -Lateness..Period(q)
      <4>1. \A q \in Queries : Period(q) \in Nat \ {0} /\ queryIn'[q] = Later(queryIn[q], Period(q))
        BY <2>2 DEF LinkTick, Period
      <4>2. QED
        BY <4>1, LaterBy
    <3>3. time' \in 0..StatusPeriod * DiagnosticPeriod - 1
      BY <1>0, <2>2 DEF LinkTick
    <3>4. unreported' + alarmIn' = AlarmPeriod /\ unreported' \in Nat
      BY <2>2, SilencePasses
    <3>5. writeIn' \in 0..WriteInterval /\ takeIn' \in [Families -> 0..WriteInterval]
      BY <2>2 DEF LinkTick, Less
    <3>6. QED
      BY <2>2, <3>1, <3>2, <3>3, <3>4, <3>5 DEF LinkTick
  <2>3. ASSUME NEW watch \in BOOLEAN, Forward(watch)
        PROVE  LinkShape'
    BY <2>3 DEF Forward
  <2>4. CASE DrainTake
    BY <2>4 DEF DrainTake, WriteReady, Less
  <2>5. CASE DrainWritten \/ Drained \/ ReadNothing \/ Dispatched
    BY <2>5 DEF DrainWritten, Drained, ReadNothing, Dispatched
  <2>6. CASE Query
    <3>1. \A q \in Queries : Period(q) \in Nat \ {0}
      BY DEF Period
    <3>2. \A q \in Queries : queryIn'[q] \in 1..Period(q)
      <4>1. \A q \in Queries : /\ queryIn'[q] = Advanced(queryIn[q], Period(q))
                               /\ queryIn[q] \in Int /\ queryIn[q] <= Period(q)
        BY <2>6, <3>1 DEF Query
      <4>2. QED
        BY <3>1, <4>1, AdvancedRange
    <3>3. \A q \in Queries : queryIn'[q] \in -Lateness..Period(q)
      BY <3>1, <3>2
    <3>4. QED
      BY <2>6, <3>3 DEF Query
  <2>7. CASE Alarm
    <3>1. alarmIn' = alarmIn + Missed(alarmIn, AlarmPeriod) * AlarmPeriod /\ alarmIn' \in 1..AlarmPeriod
      BY <2>7, AdvancedAhead DEF Alarm
    <3>2. Missed(alarmIn, AlarmPeriod) * AlarmPeriod \in Int
      BY AdvancedAhead
    <3>3. unreported' + alarmIn' = AlarmPeriod
      BY SMTT(30), <2>7, <3>1, <3>2 DEF Alarm
    <3>4. unreported' \in Nat /\ alarmIn' \in -Lateness..AlarmPeriod
      BY SMTT(30), <2>7, <3>1, <3>2, <3>3 DEF Alarm
    <3>5. QED
      BY <2>7, <3>3, <3>4 DEF Alarm
  <2>8. CASE ReadSome
    <3>1. PICK chunk \in BoundedSeq(HeardKinds, 2) : Read(chunk)
      BY <2>8 DEF ReadSome
    <3>2. chunk \in Seq(Kinds)
      <4>1. PICK m \in 0..2 : chunk \in [1..m -> HeardKinds]
        BY DEF BoundedSeq, SeqOf
      <4>2. QED
        BY <4>1, LinkLimits
    <3>3. QED
      BY <3>1, <3>2 DEF Read
  <2>9. CASE Dispatch
    <3>1. decoded' \in Seq(Kinds) /\ step' = step
      BY <2>9 DEF Dispatch
    <3>2. inbox' \in [Families -> 0..Capacity]
      BY <2>9 DEF Dispatch
    <3>3. local' \in Seq(LocalKinds) /\ Len(local') <= Capacity
      BY <2>9 DEF Dispatch
    <3>4. QED
      BY <2>9, <3>1, <3>2, <3>3 DEF Dispatch
  <2>10. CASE AnswerLocal
    BY <2>10 DEF AnswerLocal
  <2>11. ASSUME NEW f \in Families, Consume(f)
         PROVE  LinkShape'
    BY <2>11 DEF Consume
  <2>12. CASE UNCHANGED linkVars
    BY <2>12 DEF linkVars
  <2>13. QED
    BY <1>2, <2>1, <2>2, <2>3, <2>4, <2>5, <2>6, <2>7, <2>8, <2>9, <2>10, <2>11, <2>12
       DEF LinkNext, LinkLoop
<1>3. QED
  BY <1>1, <1>2

(* The link's counters keep their ranges (LinkTypeOK): the queues their     *)
(* capacity, and the deadlines the distance that Lateness allows.           *)
THEOREM LinkTypes == LinkSpec => []LinkTypeOK
<1>1. LinkShape => LinkTypeOK
  BY DEF LinkShape
<1>2. QED
  BY <1>1, LinkShapeInductive, PTL DEF LinkSpec

(* A query's opportunities lie on the grid of its period.                   *)
OnGrid(q) == \E k \in Int : time + queryIn[q] = k * Period(q)
GridInv == \A q \in Queries : OnGrid(q)

(* time counts to a common multiple of the two periods and starts again.    *)
LEMMA TimeTurns ==
    ASSUME LinkShape, LinkTick, NEW q \in Queries
    PROVE  \E n \in Int : time' = time + 1 - n * Period(q)
<1> USE LinkLimits
<1> DEFINE turn == StatusPeriod * DiagnosticPeriod
<1>1. turn \in Nat \ {0}
  BY PositiveProduct
<1>2. time \in 0..turn - 1 /\ time' = (time + 1) % turn
  BY DEF LinkShape, LinkTypeOK, LinkTick
<1>3. turn = DiagnosticPeriod * StatusPeriod
  OBVIOUS
<1> HIDE DEF turn
<1>4. time' = time + 1 \/ time' = time + 1 - turn
  BY <1>1, <1>2
<1>5. \E n \in Int : turn = n * Period(q)
  BY <1>3 DEF turn, Period, Queries
<1>6. Period(q) \in Nat \ {0}
  BY DEF Period
<1>7. CASE time' = time + 1
  <2>1. 0 * Period(q) = 0
    BY <1>6
  <2>2. time' = time + 1 - 0 * Period(q)
    BY <1>2, <1>7, <2>1
  <2>3. QED
    BY <2>2
<1>8. CASE time' = time + 1 - turn
  BY <1>5, <1>8
<1>9. QED
  BY <1>4, <1>7, <1>8

LEMMA GridInductive ==
    ASSUME LinkShape, GridInv, [LinkNext]_linkVars
    PROVE  GridInv'
<1> USE LinkLimits
<1> SUFFICES ASSUME NEW q \in Queries
             PROVE  OnGrid(q)'
  BY DEF GridInv
<1>1. Period(q) \in Nat \ {0} /\ Period(q)' = Period(q)
  BY DEF Period
<1>2. PICK k \in Int : time + queryIn[q] = k * Period(q)
  BY DEF GridInv, OnGrid
<1>3. time \in Int /\ queryIn[q] \in Int /\ queryIn[q] <= Period(q)
  BY <1>1, PositiveProduct DEF LinkShape, LinkTypeOK
<1>4. CASE LinkTick
  <2>1. PICK n \in Int : time' = time + 1 - n * Period(q)
    BY <1>4, TimeTurns
  <2>2. PICK m \in Int : queryIn'[q] = queryIn[q] - 1 + m * Period(q)
    <3>1. \E m \in {0, 1} : queryIn'[q] = queryIn[q] - 1 + m * Period(q)
      BY <1>1, <1>4, LaterBy DEF LinkTick, LinkShape, LinkTypeOK
    <3>2. QED
      BY <3>1
  <2>3. /\ n * Period(q) \in Int /\ m * Period(q) \in Int /\ k * Period(q) \in Int
        /\ (k + m - n) * Period(q) = k * Period(q) + m * Period(q) - n * Period(q)
    <3>1. k \in Int /\ m \in Int /\ n \in Int /\ Period(q) \in Int
      BY <1>1
    <3>2. QED
      BY <3>1, SMT
  <2>4. time' + queryIn'[q] = (k + m - n) * Period(q)
    BY <1>2, <1>3, <2>1, <2>2, <2>3
  <2>5. k + m - n \in Int
    OBVIOUS
  <2>6. QED
    BY <1>1, <2>4, <2>5 DEF OnGrid
<1>5. CASE Query
  <2> DEFINE m == Missed(queryIn[q], Period(q))
  <2>1. m \in Nat /\ queryIn'[q] = queryIn[q] + m * Period(q) /\ time' = time
    BY <1>1, <1>3, <1>5, AdvancedAhead DEF Query
  <2> HIDE DEF m
  <2>2. (k + m) * Period(q) = k * Period(q) + m * Period(q) /\ m * Period(q) \in Int /\ k * Period(q) \in Int
    BY <1>1, <2>1
  <2>3. time' + queryIn'[q] = (k + m) * Period(q)
    BY <1>2, <1>3, <2>1, <2>2
  <2>4. QED
    BY <1>1, <2>1, <2>3 DEF OnGrid
<1>6. CASE UNCHANGED <<time, queryIn>>
  BY <1>1, <1>2, <1>6 DEF OnGrid
<1>7. QED
  BY <1>4, <1>5, <1>6 DEF LinkNext, LinkLoop, ReadSome, LinkStart, Forward, DrainTake, DrainWritten,
     Drained, Alarm, ReadNothing, Read, Dispatch, Dispatched, AnswerLocal, Consume, linkVars

(* The queries stay on the grid they started on, and the alarms are as many *)
(* as the silent periods (LinkKeepsTime), for all periods and however late  *)
(* the task comes.  Both follow from what the counters add up to: time and  *)
(* the time left to a whole number of periods, silence and the time left to *)
(* one.                                                                     *)
THEOREM LinkIsOnTime == LinkSpec => LinkKeepsTime
<1> USE LinkLimits
<1>1. LinkInit => GridInv
  <2>1. \A q \in Queries : Period(q) \in Nat \ {0} /\ 0 + 0 = 0 * Period(q)
    BY DEF Period
  <2>2. QED
    BY <2>1 DEF LinkInit, GridInv, OnGrid
<1>2. ASSUME LinkShape, GridInv, LinkShape', GridInv', [LinkNext]_linkVars
      PROVE  [\A q \in Queries :
                /\ (time' + queryIn'[q]) % Period(q) = 0
                /\ step = "query" /\ step' = "alarm" => queryIn'[q] \in 1..Period(q)]_linkVars
  <2> SUFFICES ASSUME NEW q \in Queries
               PROVE  \/ UNCHANGED linkVars
                      \/ /\ (time' + queryIn'[q]) % Period(q) = 0
                         /\ step = "query" /\ step' = "alarm" => queryIn'[q] \in 1..Period(q)
    OBVIOUS
  <2>1. Period(q) \in Nat \ {0} /\ Period(q)' = Period(q)
    BY DEF Period
  <2>2. PICK k \in Int : time' + queryIn'[q] = k * Period(q)
    BY <1>2, <2>1 DEF GridInv, OnGrid
  <2>3. (time' + queryIn'[q]) % Period(q) = 0
    BY <2>1, <2>2, MultipleIsEven
  <2>4. ASSUME Query
        PROVE  queryIn'[q] \in 1..Period(q)
    <3>1. queryIn'[q] = Advanced(queryIn[q], Period(q))
      BY <2>4 DEF Query
    <3>2. queryIn[q] \in Int /\ queryIn[q] <= Period(q)
      BY <1>2, <2>1 DEF LinkShape, LinkTypeOK
    <3>3. QED
      BY <2>1, <3>1, <3>2, AdvancedRange
  <2>5. step = "query" /\ step' = "alarm" => Query
    BY <1>2 DEF LinkNext, LinkLoop, ReadSome, LinkStart, LinkTick, Forward, DrainTake, DrainWritten,
     Drained, Alarm, ReadNothing, Read, Dispatch, Dispatched, AnswerLocal, Consume, linkVars
  <2>6. QED
    BY <2>3, <2>4, <2>5
<1>3. ASSUME LinkShape, LinkShape', [LinkNext]_linkVars
      PROVE  [step = "alarm" /\ step' = "read" => unreported' \in 0..AlarmPeriod - 1]_linkVars
  <2>1. ASSUME Alarm
        PROVE  alarmIn' \in 1..AlarmPeriod
    BY <1>3, <2>1, AdvancedAhead DEF Alarm, LinkShape, LinkTypeOK
  <2>2. unreported' \in Nat /\ unreported' + alarmIn' = AlarmPeriod
    BY <1>3 DEF LinkShape, LinkTypeOK, SilenceTold
  <2>3. step = "alarm" /\ step' = "read" => Alarm \/ UNCHANGED linkVars
    BY <1>3 DEF LinkNext, LinkLoop, ReadSome, LinkStart, LinkTick, Forward, DrainTake, DrainWritten,
     Drained, Query, ReadNothing, Read, Dispatch, Dispatched, AnswerLocal, Consume, linkVars
  <2>4. QED
    BY <2>1, <2>2, <2>3
<1>4. QED
  BY <1>1, <1>2, <1>3, LinkShapeInductive, GridInductive, PTL
     DEF LinkSpec, LinkKeepsTime, QueriesKeepTheGrid, AlarmForEachSilence

-----------------------------------------------------------------------------
(* The tasks together, as the run has them.                                 *)
LEMMA EachGoesItsWay ==
    ASSUME [MCNext]_transportVars
    PROVE  /\ [ClientNext]_clientVars /\ [OutputNext]_outputVars /\ [TransmitNext]_transmitVars
           /\ [RecoveryNext]_recoveryVars /\ [LinkNext]_linkVars
<1>1. CASE UNCHANGED transportVars
  BY <1>1, Zenon DEF transportVars, clientVars, outputVars, transmitVars, recoveryVars, linkVars
<1>2. CASE MCNext
  BY <1>2 DEF MCNext, Only
<1>3. QED
  BY <1>1, <1>2

(* The variables of the five tasks keep their types and the queues their    *)
(* bounds (TransportTypesOK), for all sizes of queues, numbers of slots and *)
(* periods, and with everything allowed that the other theorems exclude.    *)
THEOREM TransportTypes == MCSpec => []TransportTypesOK
<1>1. MCInit => ClientInit /\ OutputInit /\ TransmitInit /\ RecoveryInit /\ LinkInit
  BY DEF MCInit
<1>2. MCSpec => ClientSpec /\ OutputSpec /\ TransmitSpec /\ RecoverySpec /\ LinkSpec
  BY <1>1, EachGoesItsWay, PTL
     DEF MCSpec, ClientSpec, OutputSpec, TransmitSpec, RecoverySpec, LinkSpec
<1>3. QED
  BY <1>2, ClientTypes, OutputTypes, TransmitTypes, RecoveryTypes, LinkTypes, PTL
     DEF TransportTypesOK

-----------------------------------------------------------------------------
(* One transfer at a time.                                                 *)

(* ClientSlots and the USB port are hosts, and no host is NoOwner.               *)
LEMMA HostFacts ==
    /\ ClientSlots \subseteq Hosts /\ Usb \in Hosts /\ Usb \notin ClientSlots
    /\ NoOwner \notin Hosts
BY ClientsAssumption DEF ClientSlots, Usb, Hosts, NoOwner

(* Every action keeps every variable in its type: owner, admission counts, *)
(* flags and task positions.                                               *)
THEOREM TypeCorrect == Spec => []TypeOK
<1>1. Init => TypeOK
  BY ClientsAssumption, PendingAssumption DEF Init, TypeOK, Steps
<1>2. TypeOK /\ [Next]_vars => TypeOK'
  <2> SUFFICES ASSUME TypeOK, [Next]_vars PROVE TypeOK'
    OBVIOUS
  <2> USE HostFacts, PendingAssumption
  <2>1. CASE UNCHANGED vars
    BY <2>1 DEF TypeOK, vars
  <2>2. ASSUME NEW h \in Hosts, HandleStart(h) PROVE TypeOK'
    BY <2>2 DEF TypeOK, HandleStart, Steps
  <2>3. ASSUME NEW h \in Hosts, Admit(h) PROVE TypeOK'
    <3>1. pending' \in [Hosts -> 0..MaximumPending]
      BY <2>3 DEF TypeOK, Admit
    <3> QED
      BY <2>3, <3>1 DEF TypeOK, Admit, Steps
  <2>4. ASSUME NEW h \in Hosts, BeginNext(h) PROVE TypeOK'
    BY <2>4 DEF TypeOK, BeginNext, release_finished, Steps
  <2>5. ASSUME NEW h \in Hosts, RouteData(h) PROVE TypeOK'
    BY <2>5 DEF TypeOK, RouteData, Steps
  <2>6. ASSUME NEW h \in Hosts, HandleData(h) PROVE TypeOK'
    BY <2>6 DEF TypeOK, HandleData, release_finished, Steps
  <2>7. ASSUME NEW h \in Hosts, poll(h) PROVE TypeOK'
    <3>1. pending' \in [Hosts -> 0..MaximumPending]
      BY <2>7 DEF TypeOK, poll
    <3> QED
      BY <2>7, <3>1 DEF TypeOK, poll, release_finished, Steps
  <2>8. ASSUME NEW h \in Hosts, Expire(h) PROVE TypeOK'
    BY <2>8 DEF TypeOK, Expire
  <2>9. ASSUME NEW s \in ClientSlots, ConnectSlot(s) PROVE TypeOK'
    BY <2>9 DEF TypeOK, ConnectSlot, release_finished
  <2>10. ASSUME NEW s \in ClientSlots, Disconnect(s) PROVE TypeOK'
    BY <2>10 DEF TypeOK, Disconnect
  <2> QED
    BY <2>1, <2>2, <2>3, <2>4, <2>5, <2>6, <2>7, <2>8, <2>9, <2>10
       DEF Next, Poll, PollRetryLimit
<1> QED
  BY <1>1, <1>2, PTL DEF Spec

-----------------------------------------------------------------------------
(* An active operation is running, or its start has not returned yet, and  *)
(* nothing else runs: admission_.active() against upload/download active().*)
AdmissionInStep ==
    \A h \in Hosts : /\ running[h] => active[h]
                     /\ pc[h] = "starting" <=> active[h] /\ ~running[h]

(* The part of OwnershipBacked that is inductive: admission and machines   *)
(* agree, and the owner has an operation to its name.                      *)
BackedInv == TypeOK /\ AdmissionInStep /\ OwnershipBacked

(* BackedInv holds of every behaviour: one step per action.                *)
LEMMA BackedInvariant == Spec => []BackedInv
<1>1. Init => AdmissionInStep /\ OwnershipBacked
  BY HostFacts DEF Init, AdmissionInStep, OwnershipBacked
<1>2. TypeOK /\ AdmissionInStep /\ OwnershipBacked /\ [Next]_vars
        => AdmissionInStep' /\ OwnershipBacked'
  <2> SUFFICES ASSUME TypeOK, AdmissionInStep, OwnershipBacked, [Next]_vars
               PROVE  AdmissionInStep' /\ OwnershipBacked'
    OBVIOUS
  <2> USE HostFacts, PendingAssumption DEF AdmissionInStep, OwnershipBacked
  <2>1. CASE UNCHANGED vars
    BY <2>1 DEF vars
  <2>2. ASSUME NEW h \in Hosts, HandleStart(h)
        PROVE AdmissionInStep' /\ OwnershipBacked'
    BY <2>2 DEF TypeOK, HandleStart, Steps
  <2>3. ASSUME NEW h \in Hosts, Admit(h)
        PROVE AdmissionInStep' /\ OwnershipBacked'
    <3>1. pending[h] \in 0..MaximumPending
      BY DEF TypeOK
    <3>2. active'[h] \/ pending'[h] # 0
      <4>1. CASE active[h]
        <5>1. active' = [active EXCEPT ![h] = TRUE]
          BY <2>3, <4>1 DEF Admit
        <5> QED
          BY <5>1 DEF TypeOK
      <4>2. CASE ~active[h] /\ pending[h] < MaximumPending
        <5>1. active' = [active EXCEPT ![h] = TRUE]
          BY <2>3, <4>2 DEF Admit
        <5> QED
          BY <5>1 DEF TypeOK
      <4>3. CASE ~active[h] /\ ~(pending[h] < MaximumPending)
        <5>1. pending' = [pending EXCEPT ![h] = pending[h]]
          BY <2>3, <4>3 DEF Admit
        <5> QED
          BY <3>1, <4>3, <5>1 DEF TypeOK
      <4> QED
        BY <4>1, <4>2, <4>3
    <3>3. owner' = h
      BY <2>3 DEF Admit
    <3>4. AdmissionInStep'
      BY <2>3 DEF TypeOK, Admit, Steps
    <3> QED
      BY <3>2, <3>3, <3>4
  <2>4. ASSUME NEW h \in Hosts, BeginNext(h)
        PROVE AdmissionInStep' /\ OwnershipBacked'
    BY <2>4 DEF TypeOK, BeginNext, release_finished, Steps
  <2>5. ASSUME NEW h \in Hosts, RouteData(h)
        PROVE AdmissionInStep' /\ OwnershipBacked'
    BY <2>5 DEF TypeOK, RouteData, Steps
  <2>6. ASSUME NEW h \in Hosts, HandleData(h)
        PROVE AdmissionInStep' /\ OwnershipBacked'
    BY <2>6 DEF TypeOK, HandleData, release_finished, Steps
  <2>7. ASSUME NEW h \in Hosts, poll(h)
        PROVE AdmissionInStep' /\ OwnershipBacked'
    <3>1. CASE running[h]
      <4>1. owner' = NoOwner /\ running' = [running EXCEPT ![h] = FALSE]
        BY <2>7, <3>1 DEF poll, release_finished
      <4>2. CASE pending[h] # 0
        <5>1. /\ active' = [active EXCEPT ![h] = TRUE]
              /\ pc' = [pc EXCEPT ![h] = "starting"]
          BY <2>7, <4>2 DEF poll
        <5> QED
          BY <4>1, <5>1 DEF TypeOK
      <4>3. CASE pending[h] = 0
        <5>1. /\ active' = [active EXCEPT ![h] = FALSE]
              /\ pc' = [pc EXCEPT ![h] = "idle"]
          BY <2>7, <4>3 DEF poll
        <5> QED
          BY <4>1, <5>1 DEF TypeOK
      <4> QED
        BY <4>2, <4>3
    <3>2. CASE ~running[h]
      <4>1. /\ active' = [active EXCEPT ![h] = TRUE]
            /\ pc' = [pc EXCEPT ![h] = "starting"]
            /\ pending' = [pending EXCEPT ![h] = pending[h] - 1]
            /\ UNCHANGED <<owner, running>>
        BY <2>7, <3>2 DEF poll
      <4>2. AdmissionInStep'
        BY <3>2, <4>1 DEF TypeOK
      <4>3. OwnershipBacked'
        BY <4>1 DEF TypeOK
      <4> QED
        BY <4>2, <4>3
    <3> QED
      BY <3>1, <3>2
  <2>8. ASSUME NEW h \in Hosts, Expire(h)
        PROVE AdmissionInStep' /\ OwnershipBacked'
    BY <2>8 DEF TypeOK, Expire
  <2>9. ASSUME NEW s \in ClientSlots, ConnectSlot(s)
        PROVE AdmissionInStep' /\ OwnershipBacked'
    BY <2>9 DEF TypeOK, ConnectSlot, release_finished
  <2>10. ASSUME NEW s \in ClientSlots, Disconnect(s)
        PROVE AdmissionInStep' /\ OwnershipBacked'
    BY <2>10 DEF TypeOK, Disconnect
  <2> QED
    BY <2>1, <2>2, <2>3, <2>4, <2>5, <2>6, <2>7, <2>8, <2>9, <2>10
       DEF Next, Poll, PollRetryLimit
<1> QED
  BY <1>1, <1>2, TypeCorrect, PTL DEF Spec, BackedInv

(* Ownership is never stranded, whatever the schedule and however many     *)
(* starts overlap: the owner always has an operation whose end frees it.   *)
THEOREM OwnershipIsBacked == Spec => []OwnershipBacked
BY BackedInvariant, PTL DEF BackedInv

-----------------------------------------------------------------------------
(* With starts that do not overlap and claims that do not race: an active  *)
(* operation's host is the owner, nobody is queued, and at most one task   *)
(* is inside claim_file, having seen no foreign owner.                     *)
SerialInv ==
    /\ \A h \in Hosts : active[h] => owner = h
    /\ \A h \in Hosts : pending[h] = 0
    /\ \A h \in Hosts : pc[h] = "claim" => ~active[h] /\ owner \in {NoOwner, h}
    /\ \A g, h \in Hosts : pc[g] = "claim" /\ pc[h] = "claim" => g = h

(* SerialInv is preserved by every step of a serial schedule.              *)
LEMMA SerialStep ==
    ASSUME ~OverlappingStarts, ~RacingClaims,
           TypeOK, AdmissionInStep, OwnershipBacked, SerialInv, [Next]_vars
    PROVE  SerialInv'
<1> USE HostFacts, PendingAssumption
    DEF AdmissionInStep, OwnershipBacked, SerialInv
<1>1. CASE UNCHANGED vars
  BY <1>1 DEF vars
<1>2. ASSUME NEW h \in Hosts, HandleStart(h) PROVE SerialInv'
  BY <1>2 DEF TypeOK, HandleStart, may_claim_file, is_file_owner, Steps
<1>3. ASSUME NEW h \in Hosts, Admit(h) PROVE SerialInv'
  <2>0. pending[h] = 0 /\ ~active[h] /\ pending[h] < MaximumPending
    BY <1>3 DEF Admit
  <2>1. /\ owner' = h
        /\ active' = [active EXCEPT ![h] = TRUE]
        /\ pc' = [pc EXCEPT ![h] = "starting"]
        /\ pending' = [pending EXCEPT ![h] = pending[h]]
    BY <1>3, <2>0 DEF Admit
  <2>2. \A g \in Hosts \ {h} : ~active[g] /\ pc[g] # "claim"
    BY <1>3 DEF TypeOK, Admit
  <2>3. \A g \in Hosts \ {h} : active'[g] = active[g] /\ pc'[g] = pc[g]
    BY <2>1 DEF TypeOK
  <2> QED
    BY <2>1, <2>2, <2>3 DEF TypeOK
<1>4. ASSUME NEW h \in Hosts, BeginNext(h) PROVE SerialInv'
  BY <1>4 DEF TypeOK, BeginNext, release_finished, Steps
<1>5. ASSUME NEW h \in Hosts, RouteData(h) PROVE SerialInv'
  BY <1>5 DEF TypeOK, RouteData, Steps
<1>6. ASSUME NEW h \in Hosts, HandleData(h) PROVE SerialInv'
  BY <1>6 DEF TypeOK, HandleData, release_finished, Steps
<1>7. ASSUME NEW h \in Hosts, poll(h) PROVE SerialInv'
  <2>1. pending[h] = 0 /\ running[h] /\ active[h]
    BY <1>7 DEF poll, Steps
  <2>2. /\ pending' = [pending EXCEPT ![h] = pending[h]]
        /\ active' = [active EXCEPT ![h] = FALSE]
        /\ pc' = [pc EXCEPT ![h] = "idle"]
        /\ owner' = NoOwner
    BY <1>7, <2>1 DEF poll, release_finished
  <2>3. \A g \in Hosts \ {h} : ~active[g]
    BY <2>1
  <2> QED
    BY <2>2, <2>3 DEF TypeOK
<1>8. ASSUME NEW h \in Hosts, Expire(h) PROVE SerialInv'
  BY <1>8 DEF TypeOK, Expire
<1>9. ASSUME NEW s \in ClientSlots, ConnectSlot(s) PROVE SerialInv'
  BY <1>9 DEF TypeOK, ConnectSlot, release_finished
<1>10. ASSUME NEW s \in ClientSlots, Disconnect(s) PROVE SerialInv'
  BY <1>10 DEF TypeOK, Disconnect
<1> QED
  BY <1>1, <1>2, <1>3, <1>4, <1>5, <1>6, <1>7, <1>8, <1>9, <1>10
     DEF Next, Poll, PollRetryLimit

(* Two hosts never transfer at once, for any number of slots, when starts  *)
(* do not overlap and claim_file is not entered by two tasks at once.      *)
THEOREM SerialTransfersAreExclusive ==
    ASSUME ~OverlappingStarts, ~RacingClaims
    PROVE  Spec => [](OneTransfer /\ TransferHasOwner)
<1>1. Init => AdmissionInStep /\ OwnershipBacked /\ SerialInv
  BY HostFacts DEF Init, AdmissionInStep, OwnershipBacked, SerialInv
<1>2. SerialInv /\ TypeOK /\ AdmissionInStep => OneTransfer /\ TransferHasOwner
  BY DEF SerialInv, AdmissionInStep, OneTransfer, TransferHasOwner
<1>3. Spec => []BackedInv
  BY BackedInvariant
<1>4. BackedInv /\ SerialInv /\ [Next]_vars => SerialInv'
  BY SerialStep DEF BackedInv
<1> QED
  BY <1>1, <1>2, <1>3, <1>4, PTL DEF Spec, BackedInv

(* Under the same assumptions ownership leaves a host only with the end of *)
(* that host's own operation.                                              *)
THEOREM SerialReleaseIsOwn ==
    ASSUME ~OverlappingStarts, ~RacingClaims
    PROVE  Spec => ReleasedByOwner
<1>1. Init => SerialInv
  BY HostFacts DEF Init, SerialInv
<1>2. Spec => []BackedInv
  BY BackedInvariant
<1>3. BackedInv /\ SerialInv /\ [Next]_vars => SerialInv'
  BY SerialStep DEF BackedInv
<1>4. BackedInv /\ SerialInv /\ [Next]_vars
        => [\A h \in Hosts : owner = h /\ owner' # h => active[h] /\ ~active'[h]]_vars
  <2> SUFFICES ASSUME BackedInv, SerialInv, [Next]_vars,
                      NEW k \in Hosts, owner = k, owner' # k
               PROVE  active[k] /\ ~active'[k]
    OBVIOUS
  <2> USE HostFacts DEF BackedInv, AdmissionInStep, OwnershipBacked, SerialInv
  <2>0. active[k]
    OBVIOUS
  <2>1. CASE UNCHANGED vars
    BY <2>1 DEF vars
  <2>2. ASSUME NEW h \in Hosts, HandleStart(h) \/ RouteData(h) \/ Expire(h)
        PROVE  ~active'[k]
    BY <2>2 DEF HandleStart, RouteData, Expire
  <2>3. ASSUME NEW h \in Hosts, Admit(h) PROVE ~active'[k]
    BY <2>0, <2>3 DEF Admit
  <2>4. ASSUME NEW h \in Hosts, BeginNext(h) PROVE ~active'[k]
    BY <2>0, <2>4 DEF TypeOK, BeginNext
  <2>5. ASSUME NEW h \in Hosts, HandleData(h) PROVE ~active'[k]
    BY <2>0, <2>5 DEF TypeOK, HandleData
  <2>6. ASSUME NEW h \in Hosts, poll(h) PROVE ~active'[k]
    BY <2>0, <2>6 DEF TypeOK, poll
  <2>7. ASSUME NEW s \in ClientSlots, ConnectSlot(s) PROVE ~active'[k]
    BY <2>0, <2>7 DEF TypeOK, ConnectSlot
  <2>8. ASSUME NEW s \in ClientSlots, Disconnect(s) PROVE ~active'[k]
    BY <2>8 DEF Disconnect
  <2> QED
    BY <2>0, <2>1, <2>2, <2>3, <2>4, <2>5, <2>6, <2>7, <2>8
       DEF Next, Poll, PollRetryLimit
<1> QED
  BY <1>1, <1>2, <1>3, <1>4, PTL DEF Spec, ReleasedByOwner
=============================================================================
