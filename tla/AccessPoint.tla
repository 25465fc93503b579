---------------------------- MODULE AccessPoint ----------------------------
(***************************************************************************)
(* The commands that change the access point.  Hosts of every transport    *)
(* run them under one mutex; a command changes the command state at once   *)
(* and then hands a job to the one task that writes NVS, and waits for it  *)
(* for a limited time.  A job belongs to the command and to the task, and  *)
(* the last of the two frees it.  A restart loads what NVS has.            *)
(*                                                                         *)
(* Of a value it matters whether it is set or clear: a channel, a          *)
(* password and a name, or that the access point is enabled.               *)
(***************************************************************************)
EXTENDS Naturals, Sequences, FiniteSets

CONSTANTS
    ApHosts,     \* the hosts that send access point commands
    NoHost,      \* nobody has the mutex
    MaxJobs,     \* jobs that fit into memory
    ApCapacity,  \* persistence_waiting_capacity
    ApKeys,      \* the settings: "channel", "password", "enabled" and "ssid"
    ApFaults     \* what may fail: "allocate", "write", "radio"

ASSUME ApAssumption ==
    /\ NoHost \notin ApHosts /\ MaxJobs \in Nat \ {0} /\ ApCapacity \in Nat \ {0}
    /\ ApKeys \subseteq {"channel", "password", "enabled", "ssid"}
    /\ ApFaults \subseteq {"allocate", "write", "radio"}

ApValues == {"set", "clear"}
Stored == ApValues \cup {"missing", "legacy"}
ApJobs == 1..MaxJobs
NoJob == 0

VARIABLES
    apState,    \* command_state
    apStored,   \* what NVS and the configuration document hold
    radio,      \* the access point is on
    apOwner,    \* holder of command_mutex
    apRequest,  \* the command at work: [key, value, stage, job]
    apJobs,     \* the allocated jobs: [key, value, references, given, succeeded]
    apQueue,    \* persistence_queue
    worker,     \* the job at the task, and how far it is
    apTold      \* the settings whose last command was told of success

apVars == <<apState, apStored, radio, apOwner, apRequest, apJobs, apQueue, worker, apTold>>

NoRequest == [key |-> "none", value |-> "clear", stage |-> "none", job |-> NoJob]
NoWork == [job |-> NoJob, stage |-> "waiting"]
Jobs == [key : ApKeys, value : ApValues, references : 1..2, given : BOOLEAN,
         succeeded : BOOLEAN]

ApTypeOK ==
    /\ apState \in [ApKeys -> ApValues] /\ apStored \in [ApKeys -> Stored]
    /\ radio \in BOOLEAN /\ apOwner \in ApHosts \cup {NoHost}
    /\ apRequest \in [key : ApKeys \cup {"none"}, value : ApValues, job : ApJobs \cup {NoJob},
                    stage : {"none", "create", "admit", "wait", "name", "apply"}]
    /\ DOMAIN apJobs \subseteq ApJobs /\ apJobs \in [DOMAIN apJobs -> Jobs]
    /\ apQueue \in Seq(ApJobs) /\ Len(apQueue) <= ApCapacity
    /\ worker \in [job : ApJobs \cup {NoJob}, stage : {"waiting", "write", "give", "release"}]
    /\ apTold \subseteq ApKeys

(* parse_access_point_startup_settings: an access point of which nothing is  *)
(* stored is enabled, and an older firmware stored a channel as a number.   *)
Loaded(stored) ==
    [k \in ApKeys |->
        IF \/ stored[k] = "set"
           \/ k = "enabled" /\ stored[k] = "missing"
           \/ k = "channel" /\ stored[k] = "legacy"
        THEN "set" ELSE "clear"]

(* ConnectivityStartup::start: the access point is on when it is enabled.    *)
(* When one of the driver's calls fails the machine restarts again.         *)
Startup(settings) == "enabled" \in ApKeys /\ settings["enabled"] = "set"

ApInit ==
    /\ apStored \in {s \in [ApKeys -> Stored] :
                       \A k \in ApKeys : s[k] # "clear" /\ (s[k] = "legacy" => k = "channel")}
    /\ apState = Loaded(apStored) /\ radio = Startup(Loaded(apStored))
    /\ apOwner = NoHost /\ apRequest = NoRequest
    /\ apJobs = << >> /\ apQueue = << >> /\ worker = NoWork
    /\ apTold = {}

-----------------------------------------------------------------------------
(* execute_ap assigns the state, whatever becomes of saving it.             *)
ApCommand(h, k, v) ==
    /\ apOwner = NoHost
    /\ apOwner' = h /\ apState' = [apState EXCEPT ![k] = v]
    /\ apRequest' = [key |-> k, value |-> v, job |-> NoJob,
                   stage |-> IF k = "ssid" THEN "name" ELSE "create"]
    /\ apTold' = apTold \ {k}
    /\ UNCHANGED <<apStored, radio, apJobs, apQueue, worker>>

(* The command ends with its answer and gives the mutex back.               *)
Answer(success) ==
    /\ apTold' = IF success THEN apTold \cup {apRequest.key} ELSE apTold
    /\ apOwner' = NoHost /\ apRequest' = NoRequest

(* persist_machine_name writes the configuration document, in place.        *)
SaveName ==
    /\ apRequest.stage = "name"
    /\ \/ apStored' = [apStored EXCEPT !["ssid"] = apRequest.value] /\ Answer(TRUE)
       \/ "write" \in ApFaults /\ UNCHANGED apStored /\ Answer(FALSE)
    /\ UNCHANGED <<apState, radio, apJobs, apQueue, worker>>

(* persist_async: a job that two hold is made.                              *)
CreateJob ==
    /\ apRequest.stage = "create"
    /\ \/ \E j \in ApJobs \ DOMAIN apJobs :
             /\ \A i \in ApJobs \ DOMAIN apJobs : j <= i
             /\ apJobs' = [i \in DOMAIN apJobs \cup {j} |->
                             IF i = j THEN [key |-> apRequest.key, value |-> apRequest.value,
                                            references |-> 2, given |-> FALSE,
                                            succeeded |-> FALSE]
                             ELSE apJobs[i]]
             /\ apRequest' = [apRequest EXCEPT !.stage = "admit", !.job = j]
             /\ UNCHANGED <<apOwner, apTold>>
       \/ /\ "allocate" \in ApFaults \/ DOMAIN apJobs = ApJobs
          /\ Answer(FALSE) /\ UNCHANGED apJobs
    /\ UNCHANGED <<apState, apStored, radio, apQueue, worker>>

AdmitJob ==
    /\ apRequest.stage = "admit" /\ Len(apQueue) < ApCapacity
    /\ apQueue' = Append(apQueue, apRequest.job) /\ apRequest' = [apRequest EXCEPT !.stage = "wait"]
    /\ UNCHANGED <<apState, apStored, radio, apOwner, apJobs, worker, apTold>>

(* release_job, with as many references as there were before it.            *)
Release(j, references) ==
    apJobs' = IF references = 1 THEN [i \in DOMAIN apJobs \ {j} |-> apJobs[i]]
              ELSE [apJobs EXCEPT ![j].references = references - 1]

(* The queue stayed full: the job was never the task's.                     *)
RefuseJob ==
    /\ apRequest.stage = "admit" /\ Len(apQueue) = ApCapacity
    /\ Release(apRequest.job, 1) /\ Answer(FALSE)
    /\ UNCHANGED <<apState, apStored, radio, apQueue, worker>>

WorkerTimeout ==
    /\ apRequest.stage = "wait" /\ ~apJobs[apRequest.job].given
    /\ Release(apRequest.job, apJobs[apRequest.job].references) /\ Answer(FALSE)
    /\ UNCHANGED <<apState, apStored, radio, apQueue, worker>>

(* A job that is done: the radio follows a saved enable or disable.         *)
JobCompleted ==
    /\ apRequest.stage = "wait" /\ apJobs[apRequest.job].given
    /\ Release(apRequest.job, apJobs[apRequest.job].references)
    /\ IF apJobs[apRequest.job].succeeded /\ apRequest.key = "enabled"
       THEN apRequest' = [apRequest EXCEPT !.stage = "apply", !.job = NoJob]
            /\ UNCHANGED <<apOwner, apTold>>
       ELSE Answer(apJobs[apRequest.job].succeeded)
    /\ UNCHANGED <<apState, apStored, radio, apQueue, worker>>

(* enable_access_point and disable_access_point; when the configuration is  *)
(* refused the mode has changed already.                                    *)
ApplyEnabled ==
    /\ apRequest.stage = "apply"
    /\ \/ radio' = (apRequest.value = "set") /\ Answer(TRUE)
       \/ "radio" \in ApFaults /\ apRequest.value = "set" /\ radio' = TRUE /\ Answer(FALSE)
       \/ "radio" \in ApFaults /\ UNCHANGED radio /\ Answer(FALSE)
    /\ UNCHANGED <<apState, apStored, apJobs, apQueue, worker>>

-----------------------------------------------------------------------------
(* access_point_persistence_task.                                           *)
WorkerTakes ==
    /\ worker.stage = "waiting" /\ apQueue # << >>
    /\ worker' = [job |-> Head(apQueue), stage |-> "write"] /\ apQueue' = Tail(apQueue)
    /\ UNCHANGED <<apState, apStored, radio, apOwner, apRequest, apJobs, apTold>>

WorkerWrites ==
    /\ worker.stage = "write" /\ worker' = [worker EXCEPT !.stage = "give"]
    /\ LET job == apJobs[worker.job] IN
       \/ /\ apStored' = [apStored EXCEPT ![job.key] = job.value]
          /\ apJobs' = [apJobs EXCEPT ![worker.job].succeeded = TRUE]
       \/ "write" \in ApFaults /\ UNCHANGED <<apStored, apJobs>>
    /\ UNCHANGED <<apState, radio, apOwner, apRequest, apQueue, apTold>>

WorkerGives ==
    /\ worker.stage = "give" /\ worker' = [worker EXCEPT !.stage = "release"]
    /\ apJobs' = [apJobs EXCEPT ![worker.job].given = TRUE]
    /\ UNCHANGED <<apState, apStored, radio, apOwner, apRequest, apQueue, apTold>>

WorkerReleases ==
    /\ worker.stage = "release" /\ worker' = NoWork
    /\ Release(worker.job, apJobs[worker.job].references)
    /\ UNCHANGED <<apState, apStored, radio, apOwner, apRequest, apQueue, apTold>>

(* The machine restarts.                                                    *)
ApRestart ==
    /\ apState' = Loaded(apStored) /\ UNCHANGED apStored
    /\ radio' = Startup(Loaded(apStored))
    /\ apOwner' = NoHost /\ apRequest' = NoRequest
    /\ apJobs' = << >> /\ apQueue' = << >> /\ worker' = NoWork
    /\ apTold' = {}

ApNext ==
    \/ \E h \in ApHosts, k \in ApKeys, v \in ApValues : ApCommand(h, k, v)
    \/ SaveName \/ CreateJob \/ AdmitJob \/ RefuseJob \/ WorkerTimeout \/ JobCompleted
    \/ ApplyEnabled \/ WorkerTakes \/ WorkerWrites \/ WorkerGives \/ WorkerReleases
    \/ ApRestart

ApSpec == ApInit /\ [][ApNext]_apVars

-----------------------------------------------------------------------------
Holders(j) ==
    (IF \E i \in DOMAIN apQueue : apQueue[i] = j THEN {"queue"} ELSE {})
    \cup (IF worker.job = j THEN {"worker"} ELSE {})
    \cup (IF apRequest.job = j THEN {"command"} ELSE {})

(* A job is allocated as long as the queue, the task or a command has it,    *)
(* and no longer: a late task never finds a freed job, and an abandoned one *)
(* is not kept (release_job, the references of a PersistenceJob).           *)
JobsHeld ==
    /\ DOMAIN apJobs = {j \in ApJobs : Holders(j) # {}}
    /\ \A j \in DOMAIN apJobs :
          apJobs[j].references = Cardinality(Holders(j))
                                 + (IF apRequest.job = j /\ apRequest.stage = "admit" THEN 1 ELSE 0)

(* What a command was told is saved is what a restart loads, although a     *)
(* command that was given up before may still be written (persist_async),   *)
(* and an access point that was enabled or disabled is on or off.           *)
SavedIsLoaded ==
    \A k \in apTold : /\ Loaded(apStored)[k] = apState[k]
                      /\ k = "enabled" => radio = (apState[k] = "set")

(* Jobs live as long as they are held, and saved settings stay.             *)
AccessPointKeeps == JobsHeld /\ SavedIsLoaded
=============================================================================
