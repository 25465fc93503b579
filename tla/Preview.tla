------------------------------- MODULE Preview -------------------------------
(***************************************************************************)
(* Looking at recordings.  One preview session is open at a time; play and *)
(* resume start a task that sends frame after frame for as long as the     *)
(* generation is the one it started with.  The handlers of the preview     *)
(* socket run in the task of the video server; the arbiter of the live     *)
(* picture ends the session from a task of its own.                        *)
(***************************************************************************)
EXTENDS Naturals, FiniteSets

CONSTANTS
    PreviewSockets,            \* descriptors of preview sockets
    MaxSessions,        \* bound: sessions opened
    MaxPreviewGenerations, \* bound: preview_generation
    LastFrame,          \* of every recording; frames count from 0
    ArbiterRaces,       \* the arbiter and a handler act in the middle of one another
    PreviewFaults       \* what may fail: "send", "receive", "create"

ASSUME PreviewAssumption ==
    /\ {MaxSessions, MaxPreviewGenerations, LastFrame} \subseteq Nat
    /\ ArbiterRaces \in BOOLEAN
    /\ PreviewFaults \subseteq {"send", "receive", "create"}

VARIABLES
    connected,          \* the sockets that are open
    session,            \* preview_runtime; its id is 0 when there is none
    sessions,           \* opened so far
    previewGeneration,
    players,            \* the playback tasks
    handling,           \* accepted by the handler and not yet applied
    preempting,         \* the session that the arbiter has warned, or 0
    warned, dropped,    \* sessions that were told of their end; that others ended
    misused             \* preview_runtime was used when there was none

previewVars == <<connected, session, sessions, previewGeneration, players, handling, preempting,
                 warned, dropped, misused>>

Commands == {"play", "resume", "pause", "seek", "stop"}
Frames == 0 .. LastFrame
Generations == 0 .. MaxPreviewGenerations

Session(id, socket, mode, frame) ==
    [id |-> id, socket |-> socket, mode |-> mode, frame |-> frame]

NoSession == Session(0, 0, "stopped", 0)
NoCommand == [name |-> "none", frame |-> 0]

PreviewTypeOK ==
    /\ connected \subseteq PreviewSockets /\ sessions \in 0 .. MaxSessions
    /\ session \in [id : 0 .. MaxSessions, socket : PreviewSockets \cup {0},
                    mode : {"playing", "paused", "stopped"}, frame : Frames]
    /\ previewGeneration \in Generations
    /\ players \subseteq [socket : PreviewSockets, generation : Generations,
                          next : 1 .. LastFrame + 1]
    /\ handling \in [name : Commands \cup {"none"}, frame : Frames]
    /\ preempting \in 0 .. MaxSessions /\ {warned, dropped} \subseteq SUBSET (1 .. MaxSessions)
    /\ misused \in BOOLEAN

PreviewInit ==
    /\ connected = {} /\ session = NoSession /\ sessions = 0 /\ previewGeneration = 0
    /\ players = {} /\ handling = NoCommand /\ preempting = 0 /\ warned = {} /\ dropped = {}
    /\ misused = FALSE

----------------------------------------------------------------------------
(* A handler is not entered while another one runs.                         *)
ServerIdle == handling = NoCommand /\ (ArbiterRaces \/ preempting = 0)

Connects(socket) ==
    /\ ServerIdle /\ socket \notin connected /\ connected' = connected \cup {socket}
    /\ UNCHANGED <<session, sessions, previewGeneration, players, handling, preempting, warned,
                   dropped, misused>>

(* A viewer that goes leaves its session open.                              *)
Disconnects(socket) ==
    /\ ServerIdle /\ socket \in connected /\ connected' = connected \ {socket}
    /\ UNCHANGED <<session, sessions, previewGeneration, players, handling, preempting, warned,
                   dropped, misused>>

(* Only what is read from the socket can fail like this.                    *)
MessageFails(socket) ==
    /\ ServerIdle /\ socket \in connected /\ "receive" \in PreviewFaults
    /\ previewGeneration < MaxPreviewGenerations
    /\ connected' = connected \ {socket}
    /\ IF session.id # 0 /\ session.socket = socket
       THEN session' = NoSession /\ previewGeneration' = previewGeneration + 1
       ELSE UNCHANGED <<session, previewGeneration>>
    /\ UNCHANGED <<sessions, players, handling, preempting, warned, dropped, misused>>

(* An open that is admitted replaces whatever session there is; its viewer  *)
(* is told if it is another one.                                            *)
Open(socket) ==
    /\ ServerIdle /\ socket \in connected /\ sessions < MaxSessions
    /\ previewGeneration + 2 <= MaxPreviewGenerations
    /\ sessions' = sessions + 1 /\ session' = Session(sessions + 1, socket, "stopped", 0)
    /\ LET other == session.id # 0 /\ session.socket # socket
       IN  /\ previewGeneration' = previewGeneration + (IF other THEN 2 ELSE 1)
           /\ warned' = IF other THEN warned \cup {session.id} ELSE warned
           /\ dropped' = IF other THEN dropped \cup {session.id} ELSE dropped
    /\ UNCHANGED <<connected, players, handling, preempting, misused>>

(* A command of the session's own viewer; any other is answered with a      *)
(* conflict.                                                                *)
Accept(name, frame) ==
    /\ ServerIdle /\ session.id # 0 /\ session.socket \in connected
    /\ handling' = [name |-> name, frame |-> frame]
    /\ UNCHANGED <<connected, session, sessions, previewGeneration, players, preempting, warned,
                   dropped, misused>>

----------------------------------------------------------------------------
(* apply_preview_command.                                                   *)

Applied(c, s) ==
    CASE c.name = "play"   -> [s EXCEPT !.mode = "playing", !.frame = c.frame]
      [] c.name = "resume" -> [s EXCEPT !.mode = "playing"]
      [] c.name = "pause"  -> [s EXCEPT !.mode = "paused"]
      [] c.name = "seek"   -> [s EXCEPT !.frame = c.frame]
      [] c.name = "stop"   -> NoSession

MovesOn(name) == name \in {"play", "resume", "seek", "stop"}

Player(s, generation) ==
    [socket |-> s.socket, generation |-> generation, next |-> s.frame + 1]

Shows(name) == name \in {"play", "resume", "seek"}

(* The rest of the handler; it ends the session when its picture cannot be  *)
(* sent.                                                                    *)
Apply ==
    /\ handling # NoCommand /\ handling' = NoCommand
    /\ previewGeneration + 2 <= MaxPreviewGenerations
    /\ LET next == Applied(handling, session)
           now == IF MovesOn(handling.name) THEN previewGeneration + 1 ELSE previewGeneration
       IN  \/ /\ session' = next /\ previewGeneration' = now
              /\ players' \in (IF handling.name \in {"play", "resume"}
                              THEN {players \cup {Player(next, now)}} ELSE {players})
                              \cup (IF "create" \in PreviewFaults THEN {players} ELSE {})
              /\ UNCHANGED connected
           \/ /\ Shows(handling.name) /\ "send" \in PreviewFaults
              /\ session' = NoSession /\ previewGeneration' = now + 1
              /\ connected' = connected \ {session.socket}
              /\ UNCHANGED players
    /\ misused' = (session = NoSession)
    /\ UNCHANGED <<sessions, preempting, warned, dropped>>

----------------------------------------------------------------------------
(* preview_playback_task.                                                   *)

PlayerGoesOn(p) ==
    /\ p.next <= LastFrame /\ p.generation = previewGeneration /\ p.socket \in connected

PlayerSends(p) ==
    /\ PlayerGoesOn(p)
    /\ players' \in {(players \ {p}) \cup {[p EXCEPT !.next = @ + 1]}}
                    \cup (IF "send" \in PreviewFaults THEN {players \ {p}} ELSE {})
    /\ UNCHANGED <<connected, session, sessions, previewGeneration, handling, preempting, warned,
                   dropped, misused>>

PlayerEnds(p) ==
    /\ ~PlayerGoesOn(p) /\ players' = players \ {p}
    /\ UNCHANGED <<connected, session, sessions, previewGeneration, handling, preempting, warned,
                   dropped, misused>>

----------------------------------------------------------------------------
(* preempt_preview_for_live: the message goes through the server's task,    *)
(* for which the arbiter waits.                                             *)
PreemptBegins ==
    /\ preempting = 0 /\ session.id # 0 /\ (ArbiterRaces \/ handling = NoCommand)
    /\ preempting' = session.id /\ warned' = warned \cup {session.id}
    /\ UNCHANGED <<connected, session, sessions, previewGeneration, players, handling, dropped,
                   misused>>

preempt_preview_for_live ==
    /\ preempting # 0
    /\ previewGeneration < MaxPreviewGenerations
    /\ previewGeneration' = previewGeneration + 1 /\ session' = NoSession /\ preempting' = 0
    /\ dropped' = IF session.id # 0 THEN dropped \cup {session.id} ELSE dropped
    /\ UNCHANGED <<connected, sessions, players, handling, warned, misused>>

PreviewNext ==
    \/ \E s \in PreviewSockets : Connects(s) \/ Disconnects(s) \/ MessageFails(s) \/ Open(s)
    \/ \E name \in Commands, frame \in Frames :
           (name \in {"play", "seek"} \/ frame = 0) /\ Accept(name, frame)
    \/ Apply
    \/ \E p \in players : PlayerSends(p) \/ PlayerEnds(p)
    \/ PreemptBegins \/ preempt_preview_for_live

PreviewSpec == PreviewInit /\ [][PreviewNext]_previewVars

----------------------------------------------------------------------------
(* A preview shows its own pictures (preview_websocket_handler): at most    *)
(* one task plays, and it plays for the viewer of the session that is open, *)
(* whatever was stopped, replaced or failed before; a session that another  *)
(* viewer or the live picture ended has been told; and no handler goes on   *)
(* with a session that is not there.                                        *)
PreviewServes ==
    /\ Cardinality({p \in players : p.generation = previewGeneration}) <= 1
    /\ \A p \in players : p.generation = previewGeneration => p.socket = session.socket
    /\ dropped \subseteq warned /\ ~misused
=============================================================================
