---------------------------- MODULE FrameDecoder ----------------------------
(***************************************************************************)
(* Frames out of a byte stream.  Every transport pushes what it received,  *)
(* however it was cut, into a StreamDecoder of its own, which looks for    *)
(* the sync pair, waits for as many bytes as the length field announces,   *)
(* and checks what it got.  After a bad candidate TCP and the controller's *)
(* UART scan on inside it and USB throws all of it away; USB also gives up *)
(* candidates that a host left unfinished for too long.                    *)
(*                                                                         *)
(* A byte is a number below ten; check value and tail are one more number, *)
(* different for every frame.                                              *)
(***************************************************************************)
EXTENDS Integers, Sequences, SequencesExt

CONSTANTS
    MaxSent,            \* bound: frames and pieces sent in a session
    UartFrame, HostFrame,       \* maximum_frame_size of the controller and of hosts
    UartRead, HostRead, \* bytes their transports take at once
    UartCapacity, UartDiscard,  \* undecoded_capacity, overflow_discard_size
    CheckLimit,         \* unsuccessful_check_limit
    HeaderLimit, BodyLimit,     \* the ticks after which USB gives up
    BackToBack,         \* USB: a push may end in a header as the one before did
    HeaderSilence       \* USB: a host may fall silent right after a header

ASSUME DecoderAssumption ==
    /\ {MaxSent, UartRead, HostRead, UartCapacity, HeaderLimit, BodyLimit} \subseteq Nat
    /\ {UartDiscard, CheckLimit} \subseteq Nat \ {0}
    /\ {BackToBack, HeaderSilence} \subseteq BOOLEAN
(* The frames that are sent fit, and the UART holds more than one of the    *)
(* longest frames and what it reads at once (528 + 512 bytes of 2048).      *)
ASSUME FrameSizesAssumption ==
    {UartFrame, HostFrame} \subseteq Nat \ 0 .. 6 /\ UartFrame + UartRead <= UartCapacity

VARIABLES
    policy,             \* whose decoder it is
    wire,               \* sent and not yet pushed
    sentFrames, noisy,  \* the frames sent; pieces of frames were sent as well
    stream,             \* all that was pushed
    decoder,            \* buffer_, what it returned so far, unsuccessful_checks_
    headerAge, bodyAge, \* since header_started_ and last_body_byte_; none is -1
    opened              \* since the header in the buffer really began

decoderVars == <<policy, wire, sentFrames, noisy, stream, decoder, headerAge, bodyAge, opened>>

(* Type and payload of the frames that are sent: one without a payload, one *)
(* that looks like a sync pair, and one that ends like the start of one.    *)
Bodies == {<<7>>, <<1, 2>>, <<7, 1>>}

HeaderSize == 4
None == -1
Fresh == [buffer |-> <<>>, frames |-> <<>>, checks |-> 0]

maximum_frame_size(p) == IF p = "uart" THEN UartFrame ELSE HostFrame
read_size == IF policy = "uart" THEN UartRead ELSE HostRead

DecoderTypeOK ==
    /\ policy \in {"uart", "tcp", "usb"} /\ noisy \in BOOLEAN
    /\ {wire, stream, decoder.buffer} \subseteq Seq(Nat) /\ sentFrames \in Seq(Bodies)
    /\ decoder.checks \in 0 .. CheckLimit - 1
    /\ Len(decoder.buffer) < maximum_frame_size(policy)
    /\ headerAge \in None .. HeaderLimit + 1 /\ bodyAge \in None .. BodyLimit + 1
    /\ opened \in 0 .. HeaderLimit

DecoderInit ==
    /\ policy \in {"uart", "tcp", "usb"} /\ wire = <<>> /\ sentFrames = <<>> /\ noisy = FALSE
    /\ stream = <<>> /\ decoder = Fresh /\ headerAge = None /\ bodyAge = None /\ opened = 0

----------------------------------------------------------------------------
(* A number that is different for every length and body.                    *)
check_value(bytes) ==
    LET value[n \in 0 .. Len(bytes)] == IF n = 0 THEN 1 ELSE 10 * value[n - 1] + bytes[n]
    IN  value[Len(bytes)]

encode_frame(body) ==
    LET checked == <<0, Len(body) + 1>> \o body
    IN  <<1, 2>> \o checked \o <<check_value(checked)>>

From(bytes, start) == SubSeq(bytes, start, Len(bytes))

SyncAt(bytes) == {i \in 1 .. Len(bytes) - 1 : bytes[i] = 1 /\ bytes[i + 1] = 2}

(* A bad candidate, of which USB drops all and the others the first byte;   *)
(* the UART drops one more each time its budget is used up.                 *)
rejected(p, d, bytes, size) ==
    LET checks == IF p = "uart" THEN (d.checks + 1) % CheckLimit ELSE 0
        extra == IF p = "uart" /\ checks = 0 THEN 1 ELSE 0
    IN  [d EXCEPT !.buffer = From(bytes, (IF p = "usb" THEN size ELSE 1) + extra + 1),
                  !.checks = checks]

(* Mutant: a buffer without a sync pair is thrown away with its last byte.  *)
without_sync_dropped(bytes) == <<>>

without_sync(bytes) ==
    IF bytes # <<>> /\ bytes[Len(bytes)] = 1 THEN <<1>> ELSE <<>>

(* The bytes that the first four of a candidate announce, the check over    *)
(* them, and whether the loop waits for more.                               *)
announced_size(bytes) == 10 * bytes[3] + bytes[4] + HeaderSize
allowed(p, bytes) == announced_size(bytes) \in HeaderSize + 2 .. maximum_frame_size(p)
passes(bytes) ==
    bytes[announced_size(bytes)] = check_value(SubSeq(bytes, 3, announced_size(bytes) - 1))
incomplete(p, bytes) ==
    Len(bytes) < HeaderSize \/ (allowed(p, bytes) /\ Len(bytes) < announced_size(bytes))

(* The loop's body; where the loop is left, another round changes nothing.  *)
round(p, d) ==
    LET bytes == From(d.buffer, Min(SyncAt(d.buffer)))
    IN  IF SyncAt(d.buffer) = {} THEN [d EXCEPT !.buffer = without_sync(@)]
        ELSE IF incomplete(p, bytes) THEN [d EXCEPT !.buffer = bytes]
        ELSE IF allowed(p, bytes) /\ passes(bytes)
        THEN [buffer |-> From(bytes, announced_size(bytes) + 1), checks |-> 0,
              frames |-> Append(d.frames, SubSeq(bytes, HeaderSize + 1, announced_size(bytes) - 1))]
        ELSE rejected(p, d, bytes, IF allowed(p, bytes) THEN announced_size(bytes) ELSE HeaderSize)

(* A round that does not leave the loop takes bytes, so that as many rounds *)
(* as there are bytes come to its end.                                      *)
decoded(p, d) ==
    LET rounds[n \in Nat] == IF n = 0 THEN d ELSE round(p, rounds[n - 1])
    IN  rounds[Len(d.buffer)]

(* The UART's buffer, when the decoder has fallen behind.                   *)
retained(bytes) ==
    LET times == (Len(bytes) - UartCapacity) \div UartDiscard + 1
    IN  IF policy = "uart" /\ Len(bytes) >= UartCapacity
        THEN From(bytes, times * UartDiscard + 1) ELSE bytes

----------------------------------------------------------------------------
(* The deadlines of USB, looked at before the new bytes are added ...       *)
InHeader(bytes) == Len(bytes) \in 2 .. HeaderSize - 1
InBody(bytes) == Len(bytes) > HeaderSize

Expired ==
    /\ policy = "usb"
    /\ \/ InHeader(decoder.buffer) /\ headerAge > HeaderLimit
       \/ InBody(decoder.buffer) /\ bodyAge > BodyLimit

(* ... and started after the frames are taken out.                          *)
StartDeadlines(bytes, started) ==
    /\ headerAge' = IF policy = "usb" /\ InHeader(bytes)
                    THEN IF started = None THEN 0 ELSE started ELSE None
    /\ bodyAge' = IF policy = "usb" /\ InBody(bytes) THEN 0 ELSE None

push(count) ==
    LET input == SubSeq(wire, 1, count)
        before == IF Expired THEN <<>> ELSE decoder.buffer
        after == decoded(policy, [decoder EXCEPT !.buffer = retained(before \o input)])
    IN  /\ BackToBack \/ policy # "usb"
              \/ ~(InHeader(decoder.buffer) /\ InHeader(after.buffer)
                   /\ Len(after.buffer) # Len(decoder.buffer) + count)
        /\ decoder' = after
        /\ StartDeadlines(after.buffer, IF Expired THEN None ELSE headerAge)
        /\ wire' = From(wire, count + 1) /\ stream' = stream \o input
        /\ opened' = IF InHeader(before) /\ Len(after.buffer) = Len(before) + count
                     THEN opened ELSE 0
        /\ UNCHANGED <<policy, sentFrames, noisy>>

----------------------------------------------------------------------------
(* A peer sends a frame, or a piece of one.                                 *)
Send(body) ==
    /\ wire = <<>> \/ Len(wire) < read_size
    /\ Len(sentFrames) < MaxSent
    /\ wire' = wire \o encode_frame(body) /\ sentFrames' = Append(sentFrames, body)
    /\ UNCHANGED <<policy, noisy, stream, decoder, headerAge, bodyAge, opened>>

SendPiece(body, count) ==
    /\ ~noisy /\ wire = <<>>
    /\ wire' = SubSeq(encode_frame(body), 1, count) /\ noisy' = TRUE
    /\ UNCHANGED <<policy, sentFrames, stream, decoder, headerAge, bodyAge, opened>>

(* No peer takes longer for a header, or to the next byte of a body, than   *)
(* it may ...                                                               *)
HostPauses ==
    /\ \/ InHeader(decoder.buffer) /\ opened < HeaderLimit /\ opened' = opened + 1
       \/ InBody(decoder.buffer) /\ bodyAge < BodyLimit /\ UNCHANGED opened
    /\ policy = "usb"
    /\ headerAge' = IF headerAge = None THEN None ELSE headerAge + 1
    /\ bodyAge' = IF bodyAge = None THEN None ELSE bodyAge + 1
    /\ UNCHANGED <<policy, wire, sentFrames, noisy, stream, decoder>>

(* ... but one that gives up in the middle, and comes back long after.      *)
FallsSilent ==
    /\ policy = "usb" /\ stream # <<>>
    /\ HeaderSilence \/ Len(decoder.buffer) # HeaderSize
    /\ headerAge' = IF headerAge = None THEN None ELSE HeaderLimit + 1
    /\ bodyAge' = IF bodyAge = None THEN None ELSE BodyLimit + 1
    /\ stream' = IF Len(decoder.buffer) < 2 THEN decoder.buffer ELSE <<>>
    /\ wire' = <<>> /\ sentFrames' = <<>> /\ noisy' = FALSE /\ opened' = HeaderLimit
    /\ decoder' = [decoder EXCEPT !.frames = <<>>]
    /\ UNCHANGED policy

(* The host leaves: the decoder starts anew.                                *)
reset ==
    /\ policy # "uart" /\ stream # <<>>
    /\ wire' = <<>> /\ sentFrames' = <<>> /\ noisy' = FALSE /\ stream' = <<>> /\ opened' = 0
    /\ decoder' = Fresh /\ headerAge' = None /\ bodyAge' = None
    /\ UNCHANGED policy

DecoderNext ==
    \/ \E count \in 1 .. read_size : count <= Len(wire) /\ push(count)
    \/ \E body \in Bodies :
           \/ Send(body)
           \/ \E count \in 1 .. Len(encode_frame(body)) - 1 : SendPiece(body, count)
    \/ HostPauses \/ FallsSilent \/ reset

DecoderSpec == DecoderInit /\ [][DecoderNext]_decoderVars

----------------------------------------------------------------------------
(* The frames do not depend on how the stream was cut (StreamDecoder::push, *)
(* "may be empty or arbitrarily split"): they are those of the whole stream *)
(* pushed at once, whatever pieces of frames are in it and whatever was     *)
(* given up before; only frames that were sent come out; and of a stream    *)
(* without pieces all that were sent come out, in order.                    *)
DecoderFaithful ==
    /\ decoder.frames = decoded(policy, [Fresh EXCEPT !.buffer = stream]).frames
    /\ \A i \in DOMAIN decoder.frames : decoder.frames[i] \in Bodies
    /\ ~noisy /\ wire = <<>> => decoder.frames = sentFrames
=============================================================================
