------------------------------ MODULE LiveView ------------------------------
(***************************************************************************)
(* The live picture of the camera.  Viewers are WebSockets of the video    *)
(* server, known by their descriptor, which the next connection may get    *)
(* again.  Handlers put start and stop requests on a bounded queue; the    *)
(* arbiter task gives the one stream to the latest viewer that asked: it   *)
(* moves the generation on, waits until the stream task of the one before  *)
(* has ended, and creates the next.                                        *)
(***************************************************************************)
EXTENDS Naturals, FiniteSets, Sequences

CONSTANTS
    Viewers, NoViewer,  \* descriptors
    MaxGenerations,     \* bound: live_generation
    MaxConnections,     \* bound: connections made
    ControlCapacity,    \* live_control_queue_capacity
    LingersOn,          \* a stream that did not end in time still runs at the next request
    WelcomesLost,       \* the stop of a new connection may find the queue full
    LiveFaults          \* what may fail: "capture", "receive", "create"

ASSUME LiveAssumption ==
    /\ NoViewer \notin Viewers /\ {MaxGenerations, MaxConnections} \subseteq Nat
    /\ ControlCapacity \in Nat \ {0} /\ {LingersOn, WelcomesLost} \subseteq BOOLEAN
    /\ LiveFaults \subseteq {"capture", "receive", "create"}

VARIABLES
    watching,           \* the descriptors that are WebSockets
    awaited,            \* those that asked for the stream and were not told off
    connections,        \* made so far
    control,            \* live_control_queue
    liveOwner,          \* owner_ of the policy
    generation,         \* live_generation
    ended,              \* live_stream_stopped, a binary semaphore
    streams,            \* the stream tasks
    arbiter             \* what it does, and for whom

liveVars == <<watching, awaited, connections, control, liveOwner, generation, ended, streams,
              arbiter>>

Requests == [viewer : Viewers, action : {"start", "stop"}]
Streams == [viewer : Viewers, generation : 1 .. MaxGenerations,
            at : {"top", "sending", "failed", "closing", "ending"}]
Idle == [at |-> "idle", viewer |-> NoViewer, before |-> NoViewer]

LiveTypeOK ==
    /\ watching \subseteq Viewers /\ awaited \subseteq watching
    /\ connections \in 0 .. MaxConnections /\ generation \in 0 .. MaxGenerations
    /\ control \in Seq(Requests) /\ Len(control) <= ControlCapacity
    /\ liveOwner \in Viewers \cup {NoViewer} /\ ended \in BOOLEAN /\ streams \subseteq Streams
    /\ arbiter \in [at : {"idle", "stopping", "starting"}, viewer : Viewers \cup {NoViewer},
                    before : Viewers \cup {NoViewer}]

LiveInit ==
    /\ watching = {} /\ awaited = {} /\ connections = 0 /\ control = <<>>
    /\ liveOwner = NoViewer /\ generation = 0 /\ ended = FALSE /\ streams = {} /\ arbiter = Idle

----------------------------------------------------------------------------
(* xQueueSend of submit_live_control; it gives up when there was no room    *)
(* for 200 or 500 ms.                                                       *)
Admitted(viewer, action) ==
    /\ Len(control) < ControlCapacity
    /\ control' = Append(control, [viewer |-> viewer, action |-> action])

Refused == Len(control) = ControlCapacity /\ UNCHANGED control

(* httpd_sess_trigger_close, and every other end of a connection.           *)
Close(viewer) == watching' = watching \ {viewer} /\ awaited' = awaited \ {viewer}

(* The upgrade of a connection, which first stops what the descriptor may   *)
(* still own.                                                               *)
Upgrade(viewer) ==
    /\ viewer \notin watching /\ connections < MaxConnections
    /\ connections' = connections + 1 /\ watching' = watching \cup {viewer}
    /\ Admitted(viewer, "stop") \/ (WelcomesLost /\ Refused)
    /\ UNCHANGED <<awaited, liveOwner, generation, ended, streams, arbiter>>

(* A text from a viewer; who cannot be admitted to start is disconnected.   *)
AskStart(viewer) ==
    /\ viewer \in watching
    /\ \/ /\ Admitted(viewer, "start") /\ awaited' = awaited \cup {viewer}
          /\ UNCHANGED watching
       \/ Refused /\ Close(viewer)
    /\ UNCHANGED <<connections, liveOwner, generation, ended, streams, arbiter>>

AskStop(viewer) ==
    /\ viewer \in watching
    /\ Admitted(viewer, "stop") \/ Refused
    /\ awaited' = awaited \ {viewer}
    /\ UNCHANGED <<watching, connections, liveOwner, generation, ended, streams, arbiter>>

(* A message that does not arrive whole ends the connection; one that       *)
(* announces itself badly does so without a request.                        *)
ReceiveFails(viewer) ==
    /\ viewer \in watching /\ "receive" \in LiveFaults
    /\ Admitted(viewer, "stop") \/ Refused
    /\ Close(viewer)
    /\ UNCHANGED <<connections, liveOwner, generation, ended, streams, arbiter>>

ViewerLeaves(viewer) ==
    /\ viewer \in watching /\ Close(viewer)
    /\ UNCHANGED <<connections, control, liveOwner, generation, ended, streams, arbiter>>

----------------------------------------------------------------------------
(* LiveControlPolicy::handle: who is stopped and who is started.            *)

StopsOnlyOwn(request) == request.action = "stop" /\ liveOwner = request.viewer

StartsAnew(request) == request.action = "start" /\ liveOwner # request.viewer

(* The arbiter takes a request.  To stop a stream it moves the generation   *)
(* on and waits.                                                            *)
ArbiterTakes ==
    /\ LingersOn \/ \A s \in streams : s.generation = generation
    /\ arbiter = Idle /\ control # <<>> /\ control' = Tail(control)
    /\ LET request == Head(control)
           starts == IF StartsAnew(request) THEN request.viewer ELSE NoViewer
           stops == (StopsOnlyOwn(request) \/ StartsAnew(request)) /\ liveOwner # NoViewer
       IN  /\ liveOwner' = IF StopsOnlyOwn(request) THEN NoViewer
                           ELSE IF StartsAnew(request) THEN request.viewer ELSE liveOwner
           /\ generation' = IF stops THEN generation + 1 ELSE generation
           /\ arbiter' = IF stops
                         THEN [at |-> "stopping", viewer |-> starts, before |-> liveOwner]
                         ELSE IF starts # NoViewer THEN [Idle EXCEPT !.at = "starting",
                                                                     !.viewer = starts]
                         ELSE Idle
    /\ generation < MaxGenerations
    /\ UNCHANGED <<watching, awaited, connections, ended, streams>>

(* Mutant: the semaphore is not waited for.                                 *)
StreamHasEndedAnyway == TRUE

StreamHasEnded == ended

(* The viewer that had the stream is told that it lost it.                  *)
ArbiterStopped ==
    /\ arbiter.at = "stopping" /\ StreamHasEnded /\ ended' = FALSE
    /\ IF arbiter.viewer = NoViewer
       THEN arbiter' = Idle /\ UNCHANGED awaited
       ELSE /\ arbiter' = [arbiter EXCEPT !.at = "starting"]
            /\ awaited' = awaited \ {arbiter.before}
    /\ UNCHANGED <<watching, connections, control, liveOwner, generation, streams>>

(* The stream did not end within live_task_completion_wait.                 *)
ArbiterGivesUp ==
    /\ arbiter.at = "stopping" /\ ~ended
    /\ arbiter' = Idle
    /\ IF arbiter.viewer = NoViewer
       THEN UNCHANGED <<watching, awaited, liveOwner>>
       ELSE /\ liveOwner' = IF liveOwner = arbiter.viewer THEN NoViewer ELSE liveOwner
            /\ watching' = watching \ {arbiter.viewer}
            /\ awaited' = awaited \ {arbiter.viewer, arbiter.before}
    /\ UNCHANGED <<connections, control, generation, ended, streams>>

(* A token that is left over belongs to an earlier stream.                  *)
start_live_stream ==
    /\ arbiter.at = "starting" /\ generation < MaxGenerations
    /\ arbiter' = Idle /\ ended' = FALSE /\ generation' = generation + 1
    /\ \/ /\ streams' = streams \cup {[viewer |-> arbiter.viewer, generation |-> generation + 1,
                                       at |-> "top"]}
          /\ UNCHANGED liveOwner
       \/ /\ "create" \in LiveFaults
          /\ liveOwner' = IF liveOwner = arbiter.viewer THEN NoViewer ELSE liveOwner
          /\ UNCHANGED streams
    /\ UNCHANGED <<watching, awaited, connections, control>>

----------------------------------------------------------------------------
(* live_stream_task.                                                        *)
Moves(s, at) == streams' = (streams \ {s}) \cup {[s EXCEPT !.at = at]}

(* run_live_frame_iteration looks at the socket once, before the capture.   *)
StreamTop(s) ==
    /\ s.at = "top"
    /\ Moves(s, IF s.generation # generation THEN "ending"
                ELSE IF s.viewer \in watching THEN "sending" ELSE "failed")
    /\ UNCHANGED <<watching, awaited, connections, control, liveOwner, generation, ended, arbiter>>

StreamSends(s) ==
    /\ s.at = "sending"
    /\ \/ s.viewer \in watching /\ Moves(s, "top")
       \/ (s.viewer \notin watching \/ "capture" \in LiveFaults) /\ Moves(s, "failed")
    /\ UNCHANGED <<watching, awaited, connections, control, liveOwner, generation, ended, arbiter>>

StreamGivesUp(s) ==
    /\ s.at = "failed"
    /\ Admitted(s.viewer, "stop") \/ Refused
    /\ Moves(s, "closing")
    /\ UNCHANGED <<watching, awaited, connections, liveOwner, generation, ended, arbiter>>

(* The descriptor may meanwhile be another connection's.                    *)
StreamCloses(s) ==
    /\ s.at = "closing" /\ Close(s.viewer) /\ Moves(s, "ending")
    /\ UNCHANGED <<connections, control, liveOwner, generation, ended, arbiter>>

StreamEnds(s) ==
    /\ s.at = "ending" /\ streams' = streams \ {s} /\ ended' = TRUE
    /\ UNCHANGED <<watching, awaited, connections, control, liveOwner, generation, arbiter>>

LiveNext ==
    \/ \E v \in Viewers :
           Upgrade(v) \/ AskStart(v) \/ AskStop(v) \/ ReceiveFails(v) \/ ViewerLeaves(v)
    \/ ArbiterTakes \/ ArbiterStopped \/ ArbiterGivesUp \/ start_live_stream
    \/ \E s \in streams :
           StreamTop(s) \/ StreamSends(s) \/ StreamGivesUp(s) \/ StreamCloses(s) \/ StreamEnds(s)

LiveSpec == LiveInit /\ [][LiveNext]_liveVars

----------------------------------------------------------------------------
(* The picture reaches who asked last (live_arbiter_task): two streams      *)
(* never run at once and a stream that runs has not been reported as ended, *)
(* although a stream may fail, close its viewer and ask for its own end at  *)
(* any time; and once nothing is left to do, the viewer that asked and was  *)
(* not told that it lost the stream has it, also on a used descriptor.      *)
LiveServes ==
    /\ Cardinality(streams) <= 1
    /\ ended => streams = {}
    /\ control = <<>> /\ arbiter = Idle /\ (\A s \in streams : s.at \in {"top", "sending"}) =>
           \A v \in awaited :
               \E s \in streams : s.viewer = v /\ s.generation = generation
=============================================================================
