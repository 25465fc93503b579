----------------------------- MODULE UsbTransmit -----------------------------
(***************************************************************************)
(* Frames on their way to the USB host: the bounded queue the output task  *)
(* puts them in, the task that polls it and writes to the endpoint piece   *)
(* by piece, and the flags that say whether the host may be written to,    *)
(* set by the TinyUSB callbacks and by whoever decodes a valid frame.      *)
(*                                                                         *)
(* The poll recognises the frame it is in the middle of by its address.    *)
(* The oldest frame of the deque keeps its address until it is popped, and *)
(* after a clear the next one gets that address, so all an address tells   *)
(* is that a frame is followed.                                            *)
(***************************************************************************)
EXTENDS Integers, Sequences

CONSTANTS
    QueueLimit,     \* maximum_items
    FrameSize,      \* pieces of a frame
    FrameIds,       \* bound: frames are told apart modulo this
    Overlaps        \* what may happen in the middle of something else:
                    \*   "poll":     the queue is cleared inside a poll
                    \*   "receive":  the bus changes inside valid_frame_received
                    \*   "reattach": a host leaves and returns between two polls

ASSUME TransmitAssumption ==
    /\ QueueLimit \in Nat \ {0} /\ FrameSize \in Nat \ {0}
    /\ FrameIds \in Nat /\ FrameIds > QueueLimit + 1
    /\ Overlaps \subseteq {"poll", "receive", "reattach"}

VARIABLES
    attached,   \* the step of the mount or unmount callback
    present,    \* physically_present_
    proto,      \* protocol_active_
    receiver,   \* "seen": valid_frame_received has read present
    frames,     \* frames_ of the queue
    failed,     \* failed_
    producer,   \* the output task: "idle", or "waiting" for room
    nextId,     \* the next frame
    drain,      \* the poll: "idle", or "front" between front() and the write
    tracked,    \* tracked_frame_ is not null
    sentParts,  \* transmitted_
    dangling,   \* the frame front() gave the poll is gone
    wire,       \* the last write: the frame, its first and last piece
    spoken      \* history: a valid frame came since the host was mounted

transmitVars == <<attached, present, proto, receiver, frames, failed, producer,
                  nextId, drain, tracked, sentParts, dangling, wire, spoken>>
flags == <<attached, present, proto, receiver, spoken>>
polling == <<drain, tracked, sentParts, wire>>

Ids == 0..FrameIds - 1

TransmitTypeOK ==
    /\ attached \in {"off", "reset", "appearing", "on", "leaving", "gone"}
    /\ {present, proto, failed, tracked, dangling, spoken} \subseteq BOOLEAN
    /\ receiver \in {"idle", "seen"} /\ producer \in {"idle", "waiting"}
    /\ frames \in Seq(Ids) /\ Len(frames) <= QueueLimit /\ nextId \in Ids
    /\ drain \in {"idle", "front"} /\ sentParts \in 0..FrameSize - 1
    /\ wire \in [frame : Ids, from : 0..FrameSize, to : 0..FrameSize, whole : BOOLEAN]

TransmitInit ==
    /\ attached = "off" /\ present = FALSE /\ proto = FALSE /\ receiver = "idle"
    /\ frames = <<>> /\ failed = FALSE /\ producer = "idle" /\ nextId = 0
    /\ drain = "idle" /\ tracked = FALSE /\ sentParts = 0 /\ dangling = FALSE
    /\ wire = [frame |-> 0, from |-> 0, to |-> 0, whole |-> TRUE] /\ spoken = FALSE

Clear ==
    /\ drain = "idle" \/ "poll" \in Overlaps
    /\ frames' = <<>> /\ dangling' = (drain = "front")

-----------------------------------------------------------------------------
Steady == receiver = "idle" \/ "receive" \in Overlaps

(* enumerated: the failure is forgotten, the host is present, and has not   *)
(* spoken yet.                                                              *)
EnumeratedResets ==
    /\ attached = "off" /\ Steady
    /\ ~tracked \/ "reattach" \in Overlaps
    /\ attached' = "reset" /\ failed' = FALSE /\ spoken' = FALSE
    /\ UNCHANGED <<present, proto, receiver, frames, producer, nextId, polling, dangling>>

EnumeratedAppears ==
    /\ attached = "reset" /\ Steady
    /\ attached' = "appearing" /\ present' = TRUE
    /\ UNCHANGED <<proto, receiver, spoken, frames, failed, producer, nextId, polling, dangling>>

EnumeratedSilent ==
    /\ attached = "appearing" /\ Steady
    /\ attached' = "on" /\ proto' = FALSE
    /\ UNCHANGED <<present, receiver, spoken, frames, failed, producer, nextId, polling, dangling>>

(* disconnected: both flags, then the queue.                                *)
DisconnectedLeaves ==
    /\ attached = "on" /\ Steady
    /\ attached' = "leaving" /\ present' = FALSE
    /\ UNCHANGED <<proto, receiver, spoken, frames, failed, producer, nextId, polling, dangling>>

DisconnectedSilent ==
    /\ attached = "leaving" /\ Steady
    /\ attached' = "gone" /\ proto' = FALSE
    /\ UNCHANGED <<present, receiver, spoken, frames, failed, producer, nextId, polling, dangling>>

DisconnectedClears ==
    /\ attached = "gone"
    /\ attached' = "off" /\ Clear
    /\ UNCHANGED <<present, proto, receiver, spoken, failed, producer, nextId, polling>>

(* valid_frame_received: the presence is read, then the activity stored.    *)
FrameReceived ==
    /\ receiver = "idle" /\ present
    /\ attached = "on" \/ "receive" \in Overlaps
    /\ receiver' = "seen" /\ spoken' = TRUE
    /\ UNCHANGED <<attached, present, proto, frames, failed, producer, nextId, polling, dangling>>

FrameActivates ==
    /\ receiver = "seen"
    /\ receiver' = "idle" /\ proto' = TRUE
    /\ UNCHANGED <<attached, present, spoken, frames, failed, producer, nextId, polling, dangling>>

can_send == present /\ proto /\ ~failed

-----------------------------------------------------------------------------
Room == Len(frames) < QueueLimit

Push ==
    /\ frames' = Append(frames, nextId) /\ nextId' = (nextId + 1) % FrameIds
    /\ UNCHANGED <<flags, failed, polling, dangling>>

(* enqueue: the frame goes in, or its task waits for room or a failure.     *)
Enqueue ==
    /\ producer = "idle" /\ ~failed /\ Room
    /\ Push /\ UNCHANGED producer

EnqueueWaits ==
    /\ producer = "idle" /\ ~failed /\ ~Room
    /\ producer' = "waiting"
    /\ UNCHANGED <<flags, frames, failed, nextId, polling, dangling>>

EnqueueWakes ==
    /\ producer = "waiting" /\ Room
    /\ producer' = "idle"
    /\ Push

(* Nobody made room in time: everything goes, and USB is given up until the *)
(* next enumeration.                                                        *)
EnqueueTimesOut ==
    /\ producer = "waiting" /\ ~Room
    /\ producer' = "idle" /\ failed' = TRUE /\ Clear
    /\ UNCHANGED <<flags, nextId, polling>>

-----------------------------------------------------------------------------
(* process: a host that may not be written to.                              *)
PollCannotSend ==
    /\ drain = "idle" /\ ~can_send
    /\ frames' = <<>> /\ tracked' = FALSE /\ sentParts' = 0
    /\ UNCHANGED <<flags, failed, producer, nextId, drain, dangling, wire>>

(* The oldest frame is looked at; another address starts a new frame.       *)
PollFront ==
    /\ drain = "idle" /\ can_send
    /\ drain' = IF frames = <<>> THEN "idle" ELSE "front"
    /\ tracked' = (frames # <<>>)
    /\ sentParts' = IF tracked /\ frames # <<>> THEN sentParts ELSE 0
    /\ UNCHANGED <<flags, frames, failed, producer, nextId, dangling, wire>>

(* As many pieces as the endpoint takes; a frame that is through is popped. *)
(* What is written of a frame that is gone is anything.                     *)
PollWrites(n) ==
    LET to == sentParts + n
    IN  /\ drain = "front" /\ to <= FrameSize
        /\ drain' = "idle" /\ dangling' = FALSE
        /\ wire' = [frame |-> IF dangling THEN wire.frame ELSE Head(frames),
                    from |-> sentParts + 1, to |-> to, whole |-> ~dangling]
        /\ IF to < FrameSize
           THEN sentParts' = to /\ UNCHANGED <<frames, tracked>>
           ELSE /\ sentParts' = 0 /\ tracked' = FALSE
                /\ frames' = IF frames = <<>> THEN frames ELSE Tail(frames)
        /\ UNCHANGED <<flags, failed, producer, nextId>>

PollBlocked ==
    /\ drain = "front"
    /\ drain' = "idle" /\ dangling' = FALSE
    /\ UNCHANGED <<flags, frames, failed, producer, nextId, tracked, sentParts, wire>>

(* Mutant: the frame that is given up is still followed.                    *)
PollExpiresTracking ==
    /\ drain = "front"
    /\ drain' = "idle" /\ dangling' = FALSE
    /\ frames' = <<>>
    /\ UNCHANGED <<flags, failed, producer, nextId, tracked, sentParts, wire>>

(* No progress for 500 ms: everything goes.                                 *)
PollExpires ==
    /\ drain = "front"
    /\ drain' = "idle" /\ dangling' = FALSE
    /\ frames' = <<>> /\ tracked' = FALSE /\ sentParts' = 0
    /\ UNCHANGED <<flags, failed, producer, nextId, wire>>

PollAdvances == (\E n \in 1..FrameSize : PollWrites(n)) \/ PollExpires
TransmitPoll == PollCannotSend \/ PollFront \/ PollBlocked \/ PollAdvances
MountCallback == EnumeratedAppears \/ EnumeratedSilent
UnmountCallback == DisconnectedSilent \/ DisconnectedClears

TransmitNext ==
    \/ EnumeratedResets \/ MountCallback \/ DisconnectedLeaves \/ UnmountCallback
    \/ FrameReceived \/ FrameActivates
    \/ Enqueue \/ EnqueueWaits \/ EnqueueWakes \/ EnqueueTimesOut
    \/ TransmitPoll

TransmitSpec == TransmitInit /\ [][TransmitNext]_transmitVars

(* The tasks run.  The endpoint takes a piece once in a while, or the       *)
(* progress timeout passes.                                                 *)
TransmitFairness ==
    /\ WF_transmitVars(PollCannotSend) /\ WF_transmitVars(PollFront)
    /\ WF_transmitVars(drain = "front" /\ TransmitPoll) /\ SF_transmitVars(PollAdvances)
    /\ WF_transmitVars(MountCallback) /\ WF_transmitVars(UnmountCallback)
    /\ WF_transmitVars(FrameActivates)

-----------------------------------------------------------------------------
(* The host never gets the rest of a frame without its beginning, nor bytes *)
(* of a frame that is gone (tracked_frame_ and transmitted_ in process).    *)
TailAfterHead ==
    [][wire' # wire =>
           /\ wire'.whole
           /\ wire'.from = 1 \/ (wire.frame = wire'.frame /\ wire'.from = wire.to + 1)]_transmitVars

(* Nothing is written to a host before its first valid frame                *)
(* (valid_frame_received, enumerated).                                      *)
SpokenToFirst == [][wire' # wire => spoken]_transmitVars

(* What is queued is written or given up, whatever the host does.           *)
FramesLeave ==
    \A i \in Ids : (frames # <<>> /\ Head(frames) = i) ~> (frames = <<>> \/ Head(frames) # i)

(* A USB host gets whole frames, none before it spoke, and none stays queued *)
(* for ever.                                                                *)
UsbDelivers == TailAfterHead /\ SpokenToFirst /\ FramesLeave
=============================================================================
