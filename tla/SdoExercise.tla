---------------------------- MODULE SdoExercise ----------------------------
(***************************************************************************)
(* The exercise that M942 starts, as a client of a remote CANopen node.    *)
(* Its worker reads the inputs of the node and writes its outputs, through *)
(* a mailbox that admits one request at a time.  The CAN task takes the    *)
(* answers from the bus: it clears the mailbox, then publishes the result  *)
(* and gives the semaphore on which the worker waits.  Frames go through a *)
(* queue in which they stay when the driver refuses them.                  *)
(*                                                                         *)
(* There is one worker at a time (TcpClientWorkers models its claim), so   *)
(* nobody contends for the mutex of the client.  That an exercise starts   *)
(* only with its predecessor's worker gone is taken from there.            *)
(***************************************************************************)
EXTENDS Naturals, Sequences

CONSTANTS
    MaxAttempts,   \* maximum_sdo_attempts
    MaxFrames,     \* bound on the frames in the queue, at the node and on the bus
    Inputs,        \* the values the inputs of the remote node may have
    NoInput,
    LateAnswers,   \* answers outlast the timeout of their request
    Overtakes      \* the CAN task is overtaken between taking and publishing

ASSUME SdoAssumption ==
    /\ MaxAttempts \in Nat \ {0} /\ MaxFrames \in Nat \ {0} /\ NoInput \notin Inputs
    /\ LateAnswers \in BOOLEAN /\ Overtakes \in BOOLEAN

RemoteObjects == {"input", "output"}
Codes == {"value", "confirm", "abort"}
Answers == [object : RemoteObjects, code : Codes, value : Inputs \cup {NoInput}]
Nothing == [object |-> "none", code |-> "none", value |-> NoInput]

VARIABLES
    exerciser,     \* where the worker is
    attempt,    \* attempts begun, of the read or the write
    over,       \* deadline_milliseconds_ has passed
    mailbox,    \* pending_: the object asked for, or "none"
    taken,      \* the answer the CAN task has taken and not yet published
    result,     \* sdo_result_
    given,      \* sdo_response_
    queue,      \* CanPendingTransmitter::pending_
    inbox,      \* requests that the remote node has not handled
    bus,        \* answers that the CAN task has not received
    input,      \* the inputs of the remote node
    value,      \* what the worker read
    seen        \* what the inputs have been since the cycle began

sdoVars == <<exerciser, attempt, over, mailbox, taken, result, given, queue, inbox, bus,
             input, value, seen>>

SdoTypeOK ==
    /\ exerciser \in {"off", "cycle", "read", "read_wait", "write", "write_wait"}
    /\ attempt \in 0..MaxAttempts /\ over \in BOOLEAN
    /\ mailbox \in RemoteObjects \cup {"none"}
    /\ taken \in Answers \cup {Nothing} /\ result \in Answers \cup {Nothing}
    /\ given \in BOOLEAN
    /\ \A f \in 1..Len(queue) : queue[f] \in RemoteObjects \cup {"own"}
    /\ \A f \in 1..Len(inbox) : inbox[f] \in RemoteObjects
    /\ \A f \in 1..Len(bus) : bus[f] \in Answers
    /\ Len(queue) + Len(inbox) + Len(bus) <= MaxFrames
    /\ input \in Inputs /\ value \in Inputs \cup {NoInput} /\ seen \subseteq Inputs

SdoInit ==
    /\ exerciser = "off" /\ attempt = 0 /\ over = FALSE
    /\ mailbox = "none" /\ taken = Nothing /\ result = Nothing /\ given = FALSE
    /\ queue = <<>> /\ inbox = <<>> /\ bus = <<>>
    /\ input \in Inputs /\ value = NoInput /\ seen = {}

-----------------------------------------------------------------------------
IsRequest(f) == f # "own"
FrameRoom == Len(queue) + Len(inbox) + Len(bus) < MaxFrames

(* The requests among frames: the remote node does not see the others.      *)
requests(frames) ==
    LET among[n \in 0..Len(frames)] ==
            IF n = 0 THEN <<>>
            ELSE IF IsRequest(frames[n]) THEN Append(among[n - 1], frames[n]) ELSE among[n - 1]
    IN  among[Len(frames)]

(* offer: the frames are sent from the front until the driver refuses one,  *)
(* which stays.                                                             *)
offer(frame) ==
    LET all == Append(queue, frame)
    IN  \E sent \in 0..Len(all) :
           /\ queue' = SubSeq(all, sent + 1, Len(all))
           /\ inbox' = inbox \o requests(SubSeq(all, 1, sent))

(* The CAN task offers the frames of its own cycle.                         *)
OfferOwn ==
    /\ FrameRoom /\ offer("own")
    /\ UNCHANGED <<exerciser, attempt, over, mailbox, taken, result, given, bus, input, value, seen>>

-----------------------------------------------------------------------------
(* read_remote_u32 and write_remote_u32: what is left of an earlier request *)
(* is thrown away, and the request is offered.  A mailbox that is taken     *)
(* fails the request at once.                                               *)
Begin(object, from, to) ==
    /\ exerciser = from /\ ~over /\ attempt < MaxAttempts /\ FrameRoom
    /\ Overtakes \/ taken = Nothing
    /\ given' = FALSE /\ result' = Nothing /\ attempt' = attempt + 1
    /\ IF mailbox = "none"
       THEN mailbox' = object /\ exerciser' = to /\ offer(object)
       ELSE UNCHANGED <<mailbox, exerciser, queue, inbox>>
    /\ UNCHANGED <<over, taken, bus, input, value, seen>>

BeginRead == Begin("input", "read", "read_wait")
BeginWrite == Begin("output", "write", "write_wait")

(* The semaphore was given in time.                                         *)
Succeeded == result # Nothing /\ result.code # "abort"

ReadAnswered ==
    /\ exerciser = "read_wait" /\ given /\ given' = FALSE
    /\ IF Succeeded /\ ~over
       THEN exerciser' = "write" /\ value' = result.value /\ attempt' = 0
       ELSE exerciser' = (IF Succeeded THEN "cycle" ELSE "read") /\ UNCHANGED <<value, attempt>>
    /\ UNCHANGED <<over, mailbox, taken, result, queue, inbox, bus, input, seen>>

WriteAnswered ==
    /\ exerciser = "write_wait" /\ given /\ given' = FALSE
    /\ exerciser' = IF Succeeded THEN "cycle" ELSE "write"
    /\ UNCHANGED <<attempt, over, mailbox, taken, result, queue, inbox, bus, input, value,
                   seen>>

(* What was sent before a long wait has been answered, or never will be.    *)
Arrived == LateAnswers \/ (bus = <<>> /\ inbox = <<>>)

(* The wait ends without it, and timed_out clears the mailbox: the deadline *)
(* has passed, because the wait began after the transmission's delay.       *)
WaitExpires ==
    /\ exerciser \in {"read_wait", "write_wait"} /\ ~given
    /\ Arrived
    /\ exerciser' = IF exerciser = "read_wait" THEN "read" ELSE "write"
    /\ mailbox' = "none"
    /\ UNCHANGED <<attempt, over, taken, result, given, queue, inbox, bus, input, value, seen>>

-----------------------------------------------------------------------------
(* run: the loop of the worker.  A cycle begins after a delay.              *)
Start ==
    /\ exerciser = "off" /\ exerciser' = "cycle" /\ over' = FALSE /\ attempt' = 0
    /\ UNCHANGED <<mailbox, taken, result, given, queue, inbox, bus, input, value, seen>>

RunsOut ==
    /\ exerciser # "off" /\ ~over /\ over' = TRUE
    /\ UNCHANGED <<exerciser, attempt, mailbox, taken, result, given, queue, inbox, bus, input, value,
                   seen>>

BeginCycle ==
    /\ exerciser = "cycle" /\ (over \/ Arrived)
    /\ exerciser' = IF over THEN "off" ELSE "read"
    /\ attempt' = 0 /\ value' = NoInput /\ seen' = {input}
    /\ UNCHANGED <<over, mailbox, taken, result, given, queue, inbox, bus, input>>

GiveUp ==
    /\ exerciser \in {"read", "write"} /\ (over \/ attempt = MaxAttempts)
    /\ exerciser' = "cycle"
    /\ UNCHANGED <<attempt, over, mailbox, taken, result, given, queue, inbox, bus, input, value,
                   seen>>

-----------------------------------------------------------------------------
(* The remote node answers a request, refuses it or is silent; its inputs   *)
(* change as they please.                                                   *)
AnswerTo(object, ok) ==
    [object |-> object,
     code |-> IF ~ok THEN "abort" ELSE IF object = "input" THEN "value" ELSE "confirm",
     value |-> IF ok /\ object = "input" THEN input ELSE NoInput]

RemoteHandles ==
    /\ inbox # <<>> /\ inbox' = Tail(inbox)
    /\ \/ \E ok \in BOOLEAN : bus' = Append(bus, AnswerTo(Head(inbox), ok))
       \/ UNCHANGED bus
    /\ UNCHANGED <<exerciser, attempt, over, mailbox, taken, result, given, queue, input, value, seen>>

InputsChange ==
    /\ \E v \in Inputs \ {input} : input' = v /\ seen' = seen \cup {v}
    /\ UNCHANGED <<exerciser, attempt, over, mailbox, taken, result, given, queue, inbox, bus, value>>

-----------------------------------------------------------------------------
(* accept and parse_sdo_client_response: an abort or a value of four bytes  *)
(* is the answer to a pending request of that object; the confirmation of a *)
(* download is not among what is accepted.  Anything else is for the node   *)
(* itself.  The mutant does not compare the object.                         *)
accept_any(answer) == mailbox # "none" /\ answer.code \in {"value", "abort"}

accepts(answer) ==
    mailbox # "none" /\ answer.object = mailbox /\ answer.code \in {"value", "abort"}

ReceiveAnswer ==
    /\ bus # <<>> /\ taken = Nothing /\ bus' = Tail(bus)
    /\ IF accepts(Head(bus))
       THEN mailbox' = "none" /\ taken' = Head(bus)
       ELSE UNCHANGED <<mailbox, taken>>
    /\ UNCHANGED <<exerciser, attempt, over, result, given, queue, inbox, input, value, seen>>

Publish ==
    /\ taken # Nothing
    /\ result' = taken /\ given' = TRUE /\ taken' = Nothing
    /\ UNCHANGED <<exerciser, attempt, over, mailbox, queue, inbox, bus, input, value, seen>>

SdoNext ==
    \/ OfferOwn \/ BeginRead \/ BeginWrite \/ ReadAnswered \/ WriteAnswered \/ WaitExpires
    \/ Start \/ RunsOut \/ BeginCycle \/ GiveUp
    \/ RemoteHandles \/ InputsChange \/ ReceiveAnswer \/ Publish

SdoSpec == SdoInit /\ [][SdoNext]_sdoVars

-----------------------------------------------------------------------------
(* A request stays pending only while the worker waits for its answer, so    *)
(* that the next one is admitted; it wakes up for an answer about the       *)
(* object it asked for; and what it acts on is a value that the inputs had  *)
(* in its cycle, although answers to other requests are under way           *)
(* (CanopenSdoMailbox, read_remote_u32).                                    *)
SdoServes ==
    /\ mailbox # "none" => exerciser = (IF mailbox = "input" THEN "read_wait" ELSE "write_wait")
    /\ given /\ exerciser = "read_wait" => result.object = "input"
    /\ given /\ exerciser = "write_wait" => result.object = "output"
    /\ (exerciser = "write" /\ attempt = 0) => value \in seen
=============================================================================
