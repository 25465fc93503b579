-------------------------- MODULE TcpClientWorkers --------------------------
(***************************************************************************)
(* The permanent task of one TCP slot and the two helpers it waits for:    *)
(* the NVS worker, to which a command is handed by reference and awaited,  *)
(* and the M942 worker task, which uses the client's session until its     *)
(* exercise is over and is awaited only when the client leaves.  Both      *)
(* report through the client task's single notification counter.           *)
(*                                                                         *)
(* Setting owner_task after xTaskCreate is one step with it: the worker    *)
(* reads it after an exercise of fixed, much longer duration.              *)
(***************************************************************************)
EXTENDS Integers, Sequences

CONSTANTS
    MaxConnections,     \* bound: clients served by the slot one after another
    MaxExercises,       \* bound: M942 exercises started in all
    MaxRequests,        \* bound: NVS commands in all
    SecondExercise,     \* a client may run M942 again on the same connection
    NvsDuringExercise   \* a client that ran M942 may send NVS commands

ASSUME ClientBoundsAssumption ==
    MaxConnections \in Nat /\ MaxExercises \in Nat /\ MaxRequests \in Nat
ASSUME ClientFlagsAssumption ==
    SecondExercise \in BOOLEAN /\ NvsDuringExercise \in BOOLEAN

VARIABLES
    task,       \* where the slot's task is
    conn,       \* number of the connection it serves or served last
    notified,   \* FreeRTOS notification value of the task
    handle,     \* m942_worker is set for this connection
    exercising, \* m942_exercise_active
    workers,    \* M942 workers started: connection whose session they use, state
    request,    \* number of the NVS request last put on the task's stack
    queue,      \* tcp_nvs_command_queue
    busy        \* request the NVS worker is executing, 0 for none

clientVars == <<task, conn, notified, handle, exercising, workers, request, queue, busy>>

Worker == [conn : Nat, state : {"running", "reporting", "deleted"}]

ClientTypeOK ==
    /\ task \in {"free", "serving", "nvs", "closing"}
    /\ conn \in 0..MaxConnections
    /\ notified \in 0..(MaxExercises + MaxRequests)
    /\ handle \in BOOLEAN /\ exercising \in BOOLEAN
    /\ workers \in Seq(Worker) /\ Len(workers) <= MaxExercises
    /\ request \in 0..MaxRequests /\ busy \in 0..MaxRequests
    /\ queue \in Seq(1..MaxRequests)

ClientInit ==
    /\ task = "free" /\ conn = 0 /\ notified = 0
    /\ handle = FALSE /\ exercising = FALSE /\ workers = <<>>
    /\ request = 0 /\ queue = <<>> /\ busy = 0

-----------------------------------------------------------------------------
(* tcp_client_task receives the next client; its notification value is the  *)
(* one the last client left.                                                *)
Connect ==
    /\ task = "free" /\ conn < MaxConnections
    /\ task' = "serving" /\ conn' = conn + 1 /\ handle' = FALSE
    /\ UNCHANGED <<notified, exercising, workers, request, queue, busy>>

(* An accepted M942 command: the exercise flag was free and the worker task *)
(* could be created.  Otherwise nothing remains changed.                    *)
StartExercise ==
    /\ task = "serving" /\ ~exercising
    /\ Len(workers) < MaxExercises /\ (SecondExercise \/ ~handle)
    /\ exercising' = TRUE /\ handle' = TRUE
    /\ workers' = Append(workers, [conn |-> conn, state |-> "running"])
    /\ UNCHANGED <<task, conn, notified, request, queue, busy>>

(* The exercise is over: the flag is dropped first ...                      *)
FinishExercise(w) ==
    /\ workers[w].state = "running"
    /\ workers' = [workers EXCEPT ![w].state = "reporting"]
    /\ exercising' = FALSE
    /\ UNCHANGED <<task, conn, notified, handle, request, queue, busy>>

(* Mutant: the worker ends without telling the client task.                 *)
ReportExerciseSilently(w) ==
    /\ workers[w].state = "reporting"
    /\ workers' = [workers EXCEPT ![w].state = "deleted"]
    /\ UNCHANGED <<task, conn, notified, handle, exercising, request, queue, busy>>

(* ... then the client task is notified and the worker deletes itself.      *)
ReportExercise(w) ==
    /\ workers[w].state = "reporting"
    /\ workers' = [workers EXCEPT ![w].state = "deleted"]
    /\ notified' = notified + 1
    /\ UNCHANGED <<task, conn, handle, exercising, request, queue, busy>>

(* run_tcp_nvs_command: the request lives on the client task's stack.       *)
SubmitNvs ==
    /\ task = "serving" /\ request < MaxRequests
    /\ NvsDuringExercise \/ ~handle
    /\ task' = "nvs" /\ request' = request + 1
    /\ queue' = Append(queue, request + 1)
    /\ UNCHANGED <<conn, notified, handle, exercising, workers, busy>>

TakeNvs ==
    /\ busy = 0 /\ queue # <<>>
    /\ busy' = Head(queue) /\ queue' = Tail(queue)
    /\ UNCHANGED <<task, conn, notified, handle, exercising, workers, request>>

FinishNvs ==
    /\ busy # 0 /\ busy' = 0
    /\ notified' = notified + 1
    /\ UNCHANGED <<task, conn, handle, exercising, workers, request, queue>>

(* ulTaskNotifyTake(pdTRUE): any notification ends the wait and clears all. *)
NvsReturns ==
    /\ task = "nvs" /\ notified > 0
    /\ task' = "serving" /\ notified' = 0
    /\ UNCHANGED <<conn, handle, exercising, workers, request, queue, busy>>

(* The client's socket ends; a connection that started M942 waits for it,   *)
(* another one is torn down at once.                                        *)
Close ==
    /\ task = "serving"
    /\ task' = IF handle THEN "closing" ELSE "free"
    /\ UNCHANGED <<conn, notified, handle, exercising, workers, request, queue, busy>>

Closed ==
    /\ task = "closing" /\ notified > 0
    /\ task' = "free" /\ notified' = 0
    /\ UNCHANGED <<conn, handle, exercising, workers, request, queue, busy>>

ClientNext ==
    \/ Connect \/ StartExercise \/ SubmitNvs \/ TakeNvs \/ FinishNvs
    \/ NvsReturns \/ Close \/ Closed
    \/ \E w \in DOMAIN workers : FinishExercise(w) \/ ReportExercise(w)

ClientSpec == ClientInit /\ [][ClientNext]_clientVars

(* Every task runs on; the client need not send anything nor leave.         *)
ClientFairness ==
    /\ WF_clientVars(TakeNvs) /\ WF_clientVars(FinishNvs) /\ WF_clientVars(NvsReturns) /\ WF_clientVars(Closed)
    /\ \A w \in 1..MaxExercises :
          WF_clientVars(w \in DOMAIN workers /\ (FinishExercise(w) \/ ReportExercise(w)))

ClientFairSpec == ClientSpec /\ ClientFairness

-----------------------------------------------------------------------------
(* A worker "owns one asynchronous M942 execution until its worker task     *)
(* terminates": while it runs, the session it answers through is there.     *)
SessionOutlivesWorker ==
    \A w \in DOMAIN workers :
        workers[w].state = "running" => task # "free" /\ workers[w].conn = conn

(* The NVS worker only ever holds a request whose stack frame is still      *)
(* waiting for it.                                                          *)
NvsRequestAlive ==
    /\ busy # 0 => task = "nvs" /\ busy = request
    /\ queue # <<>> => task = "nvs" /\ queue = <<request>>

(* A client that left gives its slot back, so "permanent workers retain the *)
(* same four-slot admission policy".                                        *)
SlotIsFreed == task = "closing" ~> task = "free"

(* No helper task outlives what it refers to, be it the session of the      *)
(* exercise or the request on the stack of the client task.                 *)
HelpersStayInside == SessionOutlivesWorker /\ NvsRequestAlive

(* A client's slot ends clean: the helpers of the slot stay inside the      *)
(* connection they were started for, and the wait for them at its end is    *)
(* always over some day.                                                    *)
SlotEndsClean == []HelpersStayInside /\ SlotIsFreed
=============================================================================
