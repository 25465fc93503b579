---------------------------- MODULE FileDownload ----------------------------
(***************************************************************************)
(* One machine-to-host download: the packet state machine, the position of *)
(* the open file, and the addressing of data blocks by sequence number.    *)
(*                                                                         *)
(* Offsets are counted in blocks of 8192 bytes: a 32-bit byte offset wraps *)
(* at WrapBlocks (2^19), and one above LONG_MAX, SeekBlocks (2^18) or      *)
(* more, is not sought at all.                                             *)
(***************************************************************************)
EXTENDS Integers

CONSTANTS
    FileBlocks,       \* blocks of the selected file
    WrapBlocks,       \* blocks in the range of the 32-bit offset
    SeekBlocks,       \* blocks whose offset fseek is called with
    Requests,         \* sequence numbers a host may ask for
    UnexpectedLimit,  \* maximum_unexpected_packets
    DownloadFaults    \* faults that may happen: "open", "read", "workspace", "send"

ASSUME DownloadSizesAssumption ==
    /\ FileBlocks \in Nat /\ WrapBlocks \in Nat \ {0} /\ SeekBlocks \in 1..WrapBlocks
    /\ UnexpectedLimit \in Nat \ {0}
ASSUME DownloadRequestsAssumption == Requests \subseteq Nat
ASSUME DownloadFaultsAssumption == DownloadFaults \subseteq {"open", "read", "workspace", "send"}

VARIABLES
    active,      \* active_
    fileOpen,    \* the file handle is open
    last,        \* last_response_
    lastSeq,     \* last_data_sequence_
    unexpected,  \* unexpected_count_
    expired,     \* inactivity timeout passed since the last packet
    position,    \* block at the file position
    response     \* last frame handed to the transport: kind, sequence, block

downloadVars == <<active, fileOpen, last, lastSeq, unexpected, expired, position, response>>

Response(kind) == [kind |-> kind, seq |-> 0, block |-> 0]
DataFrame(n, b) == [kind |-> "data", seq |-> n, block |-> b]

DownloadTypeOK ==
    /\ active \in BOOLEAN /\ fileOpen \in BOOLEAN /\ expired \in BOOLEAN
    /\ last \in {"none", "md5", "geometry", "data"}
    /\ lastSeq \in Requests \union {0}
    /\ unexpected \in 0..UnexpectedLimit
    /\ position \in 0..(WrapBlocks + FileBlocks)
    /\ response \in [kind : {"none", "md5", "geometry", "data", "ok", "cancel"},
                     seq : Nat, block : Nat]

DownloadInit ==
    /\ active = FALSE /\ fileOpen = FALSE /\ expired = FALSE
    /\ last = "none" /\ lastSeq = 0 /\ unexpected = 0 /\ position = 0
    /\ response = Response("none")

-----------------------------------------------------------------------------
(* Opening measures the file, which leaves the position at its start.       *)
Start ==
    /\ ~active
    /\ active' = TRUE /\ fileOpen' = TRUE /\ expired' = FALSE /\ unexpected' = 0
    /\ position' = 0 /\ last' = "md5" /\ response' = Response("md5")
    /\ UNCHANGED lastSeq

StartFails ==
    /\ ~active /\ "open" \in DownloadFaults
    /\ response' = Response("cancel")
    /\ UNCHANGED <<active, fileOpen, last, lastSeq, unexpected, expired, position>>

(* finish: the file is closed, ownership released, reply sent before.       *)
finish(reply) ==
    /\ active' = FALSE /\ fileOpen' = FALSE /\ response' = Response(reply)

send_md5 ==
    /\ last' = "md5" /\ response' = Response("md5") /\ unexpected' = 0
    /\ UNCHANGED <<active, fileOpen, lastSeq, position>>

(* The size is taken again, which rewinds the file.                         *)
send_geometry ==
    /\ last' = "geometry" /\ response' = Response("geometry") /\ unexpected' = 0
    /\ position' = 0
    /\ UNCHANGED <<active, fileOpen, lastSeq>>

(* Mutant: the sequence numbers are taken to start at zero.                 *)
OffsetZeroBased(n) == n % WrapBlocks

(* The block offset of sequence n, (n - 1) * 8192 in 32 bits.               *)
Offset(n) == (n - 1) % WrapBlocks

(* Where the file is read for sequence n.                                   *)
ReadPosition(n) == IF Offset(n) < SeekBlocks THEN Offset(n) ELSE position

(* send_data: the request is remembered before the read; an empty or failed *)
(* read aborts, a missing workspace drops the response without a word.      *)
send_data(n) ==
    LET at == ReadPosition(n)
    IN  /\ last' = "data" /\ lastSeq' = n
        /\ \/ /\ at >= FileBlocks \/ "read" \in DownloadFaults
              /\ finish("cancel") /\ position' = at
              /\ UNCHANGED unexpected
           \/ /\ at < FileBlocks /\ position' = at + 1
              /\ \/ response' = DataFrame(n, at) /\ unexpected' = 0
                 \/ "send" \in DownloadFaults /\ response' = response /\ unexpected' = 0
                 \/ "workspace" \in DownloadFaults /\ UNCHANGED <<response, unexpected>>
              /\ UNCHANGED <<active, fileOpen>>

(* Mutant: the limit is one packet late.                                    *)
record_unexpected_late ==
    /\ unexpected' = unexpected + 1
    /\ IF unexpected' > UnexpectedLimit THEN finish("cancel")
                                        ELSE UNCHANGED <<active, fileOpen, response>>
    /\ UNCHANGED <<last, lastSeq, position>>

record_unexpected ==
    /\ unexpected' = unexpected + 1
    /\ IF unexpected' >= UnexpectedLimit THEN finish("cancel")
                                         ELSE UNCHANGED <<active, fileOpen, response>>
    /\ UNCHANGED <<last, lastSeq, position>>

(* retry_last repeats what was sent last, data by reading it again.         *)
retry_last ==
    \/ last = "data" /\ send_data(lastSeq)
    \/ last = "geometry" /\ send_geometry
    \/ last = "md5" /\ send_md5

HandleMd5      == active /\ expired' = FALSE /\ send_md5
HandleGeometry == active /\ expired' = FALSE /\ send_geometry
HandleData(n)  == active /\ expired' = FALSE /\ send_data(n)
HandleRetry    == active /\ expired' = FALSE /\ retry_last
HandleOther    == active /\ expired' = FALSE /\ record_unexpected
HandleEnd(reply) ==
    /\ active /\ expired' = FALSE
    /\ finish(reply)
    /\ UNCHANGED <<last, lastSeq, unexpected, position>>

(* A poll after the timeout, or a reconnect before (repeat) or after it.    *)
TimeOut ==
    /\ active /\ expired
    /\ finish("cancel")
    /\ UNCHANGED <<last, lastSeq, unexpected, expired, position>>
Resume ==
    /\ active /\ ~expired
    /\ retry_last
    /\ UNCHANGED expired
Expire ==
    /\ active /\ ~expired /\ expired' = TRUE
    /\ UNCHANGED <<active, fileOpen, last, lastSeq, unexpected, position, response>>

DownloadNext ==
    \/ Start \/ StartFails \/ HandleMd5 \/ HandleGeometry
    \/ \E n \in Requests : HandleData(n)
    \/ HandleRetry \/ HandleOther \/ \E reply \in {"ok", "cancel"} : HandleEnd(reply)
    \/ TimeOut \/ Resume \/ Expire

DownloadSpec == DownloadInit /\ [][DownloadNext]_downloadVars

-----------------------------------------------------------------------------
(* A data packet labelled n carries block n of the file (blocks are counted *)
(* from 1 in packets), across 32-bit offsets, seeks and retries.            *)
LabelMatchesBlock == response.kind = "data" => response.block = response.seq - 1

(* "retransmitting the retained response is idempotent": a retry or a       *)
(* reconnect repeats the frame sent last, or gives the download up.         *)
RetryRepeats ==
    [][(HandleRetry \/ Resume) /\ response.kind = last /\ response.seq \in {0, lastSeq}
          => response' = response \/ response'.kind = "cancel"]_downloadVars

(* The file is open exactly while the download is active: no abort, read    *)
(* error, cancel or timeout leaks the handle or closes it under a transfer. *)
OpenIffActive == fileOpen <=> active

(* A download sends what it says: every data packet holds the block it is   *)
(* labelled with, the file is open as long as it is read, and a retry       *)
(* changes nothing.                                                         *)
DownloadIsFaithful == [](LabelMatchesBlock /\ OpenIffActive) /\ RetryRepeats
=============================================================================
