----------------------------- MODULE FileUpload -----------------------------
(***************************************************************************)
(* One host-to-machine upload: the packet state machine with its retry and *)
(* timeout policy, the stream it writes, and the files it leaves on the SD *)
(* card, across storage faults, reconnects and power loss.                 *)
(*                                                                         *)
(* The host is arbitrary: any packet may arrive at any time.  A data block *)
(* is its sequence number n; a piece of block n that a failed write left   *)
(* in the stream is -n.                                                    *)
(***************************************************************************)
EXTENDS Integers, Sequences

CONSTANTS
    UnmatchedLimit,   \* unmatched_packets_per_repetition
    SilentLimit,      \* silent_intervals_per_retry
    RetryLimit,       \* maximum_retry_count
    IdleLimit,        \* inactivity_timeout_milliseconds, in poll intervals
    FrameCounts,      \* block counts a host may announce (0 included)
    Faults,           \* storage faults that may happen
    MaxWriteFaults    \* bound: failed writes of a data block in one upload

AllFaults == {"parent", "open", "md5_open", "write", "partial_write", "flush", "rename"}

ASSUME LimitsAssumption ==
    /\ UnmatchedLimit \in Nat \ {0} /\ SilentLimit \in Nat \ {0}
    /\ RetryLimit \in Nat \ {0} /\ IdleLimit \in Nat \ {0}
ASSUME FrameCountsAssumption == FrameCounts \subseteq Nat
ASSUME FaultsAssumption == Faults \subseteq AllFaults
ASSUME WriteFaultsAssumption == MaxWriteFaults \in Nat

VARIABLES
    active,     \* active_
    expected,   \* expected_
    requested,  \* requested_sequence_
    announced,  \* announced_frame_count_
    history,    \* unsuccessful_receive_history_
    retries,    \* retry_count_
    idle,       \* poll intervals since last_activity_milliseconds_
    firmware,   \* firmware_upload_
    step,       \* where complete() is, "none" outside it
    stream,     \* what the open primary stream was given since it was opened
    disk,       \* state of each file: absent, old, new (a whole upload) or torn
    sent,       \* last protocol frame sent to the host
    failures    \* failed data writes of this upload

machine == <<expected, requested, announced, history, retries, idle, firmware>>
vars == <<active, machine, step, stream, disk, sent, failures>>

Files == {"file", "firmware", "partial", "md5"}
(* Mutant: a firmware image uploaded straight to /firmware.bin.             *)
TargetInPlace(fw) == IF fw THEN "firmware" ELSE "file"

Target(fw) == IF fw THEN "partial" ELSE "file"

(* The blocks of an upload that announced n: one block even when n is 0,    *)
(* since accept_data compares the sequence before it advances it.           *)
Blocks(n) == [i \in 1..(IF n = 0 THEN 1 ELSE n) |-> i]

Replies == {"none", "md5", "geometry", "data", "ok", "success", "retry", "cancel"}

TypeOK ==
    /\ active \in BOOLEAN /\ firmware \in BOOLEAN
    /\ expected \in {"md5", "geometry", "data"}
    /\ requested \in Nat /\ announced \in Nat
    /\ history \in 0..(SilentLimit + UnmatchedLimit)
    /\ retries \in 0..RetryLimit
    /\ idle \in 0..(IdleLimit + 1)
    /\ step \in {"none", "flush", "remove", "rename", "report"}
    /\ stream \in Seq(Int)
    /\ disk \in [Files -> {"absent", "old", "new", "torn"}]
    /\ sent \in Replies
    /\ failures \in Nat

Init ==
    /\ active = FALSE /\ firmware = FALSE /\ expected = "md5"
    /\ requested = 1 /\ announced = 0 /\ history = 0 /\ retries = 0 /\ idle = 0
    /\ step = "none" /\ stream = <<>> /\ sent = "none" /\ failures = 0
    /\ disk \in [Files -> {"absent", "old"}]

-----------------------------------------------------------------------------
(* start: the checks and openings in their order; fw tells whether the path *)
(* is /firmware.bin, which is uploaded to a partial file removed first.     *)
OpenedDisk(fw) ==
    [disk EXCEPT ![Target(fw)] = "torn", !["md5"] = "torn"]

Start(fw) ==
    /\ ~active /\ step = "none"
    /\ active' = TRUE /\ firmware' = fw /\ expected' = "md5"
    /\ requested' = 1 /\ announced' = 0 /\ history' = 0 /\ retries' = 0 /\ idle' = 0
    /\ stream' = <<>> /\ disk' = OpenedDisk(fw) /\ failures' = 0
    /\ sent' = "none"
    /\ UNCHANGED step

(* A start that fails leaves what it did before: nothing, the old partial   *)
(* removed, or (MD5 sidecar not opened) the target already truncated.       *)
StartFails(fw) ==
    /\ ~active /\ step = "none"
    /\ \E f \in Faults \intersect {"parent", "open", "md5_open"} :
          /\ disk' = CASE f = "parent" -> disk
                       [] f = "open" -> IF fw THEN [disk EXCEPT !["partial"] = "absent"]
                                              ELSE disk
                       [] f = "md5_open" -> [disk EXCEPT ![Target(fw)] = "torn"]
          /\ firmware' = IF f = "parent" THEN firmware ELSE fw
    /\ sent' = "cancel"
    /\ UNCHANGED <<active, expected, requested, announced, history, retries,
                   idle, step, stream, failures>>

(* cleanup(true): close, remove target and MD5 file, release.               *)
cleanup ==
    /\ active' = FALSE
    /\ disk' = [disk EXCEPT ![Target(firmware)] = "absent", !["md5"] = "absent"]
    /\ sent' = "cancel"

(* Mutant: the retry limit is not looked at.                                *)
over_limits_idle_only(r, i) == i > IdleLimit

(* check_terminal_limits, on the counters a handler has just computed.      *)
over_limits(r, i) == r >= RetryLimit \/ i > IdleLimit

(* The end of a cycle that did not end the upload itself: abort on a limit, *)
(* or answer the host with reply and keep the counters.                     *)
finish_cycle(h, r, i, reply) ==
    /\ history' = h /\ retries' = r /\ idle' = i
    /\ IF over_limits(r, i) THEN cleanup
                            ELSE sent' = reply /\ UNCHANGED <<active, disk>>

accept_md5 ==
    /\ expected = "md5" /\ expected' = "geometry"
    /\ finish_cycle(history, retries, 0, "geometry")
    /\ UNCHANGED <<requested, announced, firmware, step, stream, failures>>

accept_geometry(n) ==
    /\ expected = "geometry" /\ expected' = "data"
    /\ announced' = n /\ requested' = 1
    /\ finish_cycle(history, retries, 0, "data")
    /\ UNCHANGED <<firmware, step, stream, failures>>

(* Mutant: the sequence advances although the write failed.                 *)
write_fails_advances ==
    /\ expected = "data" /\ failures < MaxWriteFaults
    /\ failures' = failures + 1 /\ requested' = requested + 1
    /\ finish_cycle(history, retries, 0, "retry")
    /\ UNCHANGED <<expected, announced, firmware, step, stream>>

(* A write that fails sends file_retry and changes no counter; a partial    *)
(* one leaves a piece of the block in the stream.                           *)
write_fails ==
    /\ expected = "data" /\ failures < MaxWriteFaults
    /\ failures' = failures + 1
    /\ \/ "write" \in Faults /\ stream' = stream
       \/ "partial_write" \in Faults /\ stream' = Append(stream, -requested)
    /\ finish_cycle(history, retries, 0, "retry")
    /\ UNCHANGED <<expected, requested, announced, firmware, step>>

(* A block that is not the last one.                                        *)
accept_data ==
    /\ expected = "data" /\ requested < announced
    /\ stream' = Append(stream, requested)
    /\ requested' = requested + 1
    /\ finish_cycle(0, 0, 0, "data")
    /\ UNCHANGED <<expected, announced, firmware, step, failures>>

(* Mutant: completes one block early.                                       *)
accept_last_early ==
    /\ expected = "data" /\ requested + 1 >= announced
    /\ stream' = Append(stream, requested)
    /\ sent' = "ok" /\ step' = "flush" /\ idle' = 0
    /\ UNCHANGED <<active, expected, requested, announced, history, retries,
                   firmware, disk, failures>>

(* The last block: complete() acknowledges it before it flushes.            *)
accept_last ==
    /\ expected = "data" /\ requested >= announced
    /\ stream' = Append(stream, requested)
    /\ sent' = "ok" /\ step' = "flush" /\ idle' = 0
    /\ UNCHANGED <<active, expected, requested, announced, history, retries,
                   firmware, disk, failures>>

cancel ==
    /\ cleanup /\ idle' = 0
    /\ UNCHANGED <<expected, requested, announced, history, retries, firmware,
                   step, stream, failures>>

(* Mutant: repeating the request does not count as a retry.                 *)
record_unexpected_uncounted ==
    /\ finish_cycle(IF history + 1 < UnmatchedLimit THEN history + 1 ELSE 0,
                    retries, 0, expected)
    /\ UNCHANGED <<expected, requested, announced, firmware, step, stream, failures>>

(* A wrong, short or out-of-sequence packet.                                *)
record_unexpected ==
    /\ IF history + 1 < UnmatchedLimit
         THEN finish_cycle(history + 1, retries, 0, sent)
         ELSE finish_cycle(0, retries + 1, 0, expected)
    /\ UNCHANGED <<expected, requested, announced, firmware, step, stream, failures>>

Serving == active /\ step = "none"

Handle ==
    /\ Serving
    /\ \/ accept_md5 \/ \E n \in FrameCounts : accept_geometry(n)
       \/ write_fails \/ accept_data \/ accept_last \/ cancel \/ record_unexpected

Capped(i) == IF i > IdleLimit THEN IdleLimit + 1 ELSE i

(* A poll, d intervals after the last cycle: usually one, more when the     *)
(* task was held up.  The limits are checked before and after the retry.    *)
Poll(d) ==
    /\ Serving
    /\ LET i == Capped(idle + d)
           h == history + 1
       IN  IF over_limits(retries, i) \/ h < SilentLimit
             THEN finish_cycle(h, retries, i, sent)
             ELSE finish_cycle(0, retries + 1, i, "retry")
    /\ UNCHANGED <<expected, requested, announced, firmware, step, stream, failures>>

(* A TCP client comes back on the slot, d intervals later.                  *)
Resume(d) ==
    /\ Serving
    /\ LET i == Capped(idle + d)
       IN  /\ idle' = i
           /\ IF i > IdleLimit THEN cleanup
                               ELSE sent' = expected /\ UNCHANGED <<active, disk>>
    /\ UNCHANGED <<expected, requested, announced, history, retries, firmware,
                   step, stream, failures>>

-----------------------------------------------------------------------------
(* complete(), one storage operation at a time.  Results of the flush are   *)
(* not looked at; a stream that did not reach the card leaves a torn file.  *)
CompleteFlush ==
    /\ step = "flush"
    /\ step' = IF firmware THEN "remove" ELSE "report"
    /\ \/ disk' = [disk EXCEPT !["md5"] = "new", ![Target(firmware)] =
                       IF stream = Blocks(announced) THEN "new" ELSE "torn"]
       \/ "flush" \in Faults /\ disk' = disk
    /\ UNCHANGED <<active, machine, stream, sent, failures>>

CompleteRemove ==
    /\ step = "remove" /\ step' = "rename"
    /\ disk' = [disk EXCEPT !["firmware"] = "absent"]
    /\ UNCHANGED <<active, machine, stream, sent, failures>>

CompleteRename ==
    /\ step = "rename"
    /\ \/ /\ disk' = [disk EXCEPT !["firmware"] = disk["partial"], !["partial"] = "absent"]
          /\ step' = "report"
          /\ UNCHANGED <<active, sent>>
       \/ /\ "rename" \in Faults
          /\ disk' = [disk EXCEPT !["partial"] = "absent"]
          /\ step' = "none" /\ active' = FALSE /\ sent' = "cancel"
    /\ UNCHANGED <<machine, stream, failures>>

CompleteReport ==
    /\ step = "report" /\ step' = "none"
    /\ sent' = "success" /\ active' = FALSE
    /\ UNCHANGED <<machine, stream, disk, failures>>

(* Power is lost: the card keeps what was written, the machine starts idle. *)
PowerLoss ==
    /\ active
    /\ active' = FALSE /\ step' = "none" /\ sent' = "none"
    /\ expected' = "md5" /\ requested' = 1 /\ announced' = 0 /\ history' = 0
    /\ retries' = 0 /\ idle' = 0 /\ firmware' = FALSE /\ stream' = <<>>
    /\ failures' = 0
    /\ UNCHANGED disk

Complete == CompleteFlush \/ CompleteRemove \/ CompleteRename \/ CompleteReport

Next ==
    \/ \E fw \in BOOLEAN : Start(fw) \/ StartFails(fw)
    \/ Handle \/ Complete \/ PowerLoss
    \/ \E d \in {1, IdleLimit + 1} : Poll(d) \/ Resume(d)

Spec == Init /\ [][Next]_vars

(* The transfer task keeps polling between packets, and finishes complete().*)
Fairness == WF_vars(Poll(1)) /\ WF_vars(Complete)

FairSpec == Spec /\ Fairness

-----------------------------------------------------------------------------
(* Once the machine has said ok for an upload, what it flushed is the       *)
(* announced blocks, each once and in order, and /firmware.bin only ever    *)
(* changes to such a file: it is never torn.                                *)
FirmwareNeverTorn == disk["firmware"] # "torn"

(* "Info: upload success" is sent only when the uploaded path holds the     *)
(* whole upload.                                                            *)
SuccessIsWhole ==
    sent = "success" => disk[IF firmware THEN "firmware" ELSE "file"] = "new"

(* resume(): the current request is repeated "so a reconnected host can     *)
(* safely resume at the last verified protocol boundary": whenever block n  *)
(* is awaited, the stream holds blocks 1 to n-1 and nothing else.           *)
RequestAtBoundary ==
    Serving /\ expected = "data" => stream = [i \in 1..(requested - 1) |-> i]

(* A transfer that ended without success and without power loss leaves no   *)
(* torn file behind under the path it was writing.                          *)
EndedLeavesNoTorn ==
    [][active /\ ~active' /\ sent' # "none" =>
          disk'[Target(firmware)] # "torn" /\ disk'["md5"] # "torn"]_vars

(* Whatever the host sends or does not send, an upload whose writes do not  *)
(* fail for ever comes to an end: the retry and inactivity limits leave no  *)
(* way to hold the files open.                                              *)
UploadEnds == active ~> ~active

(* Every upload ends, and leaves nothing torn in the place of a file.       *)
UploadEndsClean == EndedLeavesNoTorn /\ UploadEnds
=============================================================================
