----------------------------- MODULE VideoStore -----------------------------
(***************************************************************************)
(* Recordings on the SD card.  The recording task films a running job in   *)
(* segments that it keeps in memory, names a segment by the second of the  *)
(* wall clock at which it began and writes it when it is full or when the  *)
(* job has been quiet for long.  The retention task looks at the card      *)
(* every minute and removes the oldest videos, from the list it made,      *)
(* until less than 65 per cent is used.                                    *)
(***************************************************************************)
EXTENDS Naturals, FiniteSets, Sequences

CONSTANTS
    MaxSegments,        \* bound: segments begun
    MaxWall,            \* bound: the wall clock
    CardBlocks,         \* what the card holds; a video or another file takes one
    FramesPerFile,      \* frames_per_file of the camera's settings
    QuietLimit,         \* maximum_inactive_intervals
    ClockSteps,         \* the wall clock may be set back, and is by a restart
    QuickSegments,      \* two segments may begin in one second
    VideoFaults         \* what may fail: "write", "usage", "remove"

ASSUME VideoAssumption ==
    /\ {MaxSegments, MaxWall, CardBlocks, FramesPerFile, QuietLimit} \subseteq Nat
    /\ {ClockSteps, QuickSegments} \subseteq BOOLEAN
    /\ VideoFaults \subseteq {"write", "usage", "remove"}

VARIABLES
    requested, job,     \* recording_requested; a play or the controller runs
    wall, begun,        \* the wall clock; segments begun so far
    lastName,           \* the second at which the last one was
    segment,            \* of the recording task; none has id 0
    videos, others,     \* the files in /videos; the number of other files
    candidates,         \* the names the retention task goes through
    skipped,            \* those of them it could not remove
    overwritten, newerGone  \* a video was lost to its name; one before an older

videoVars == <<requested, job, wall, begun, lastName, segment, videos, others, candidates,
               skipped, overwritten, newerGone>>

Segments == [id : 0 .. MaxSegments, name : 0 .. MaxWall, attempted : Nat, quiet : Nat]
NoSegment == [id |-> 0, name |-> 0, attempted |-> 0, quiet |-> 0]
Videos == [id : 1 .. MaxSegments, name : 0 .. MaxWall, modified : 0 .. MaxWall]

VideoTypeOK ==
    /\ {requested, job, overwritten, newerGone} \subseteq BOOLEAN
    /\ wall \in 0 .. MaxWall /\ begun \in 0 .. MaxSegments /\ lastName \in 0 .. MaxWall
    /\ segment \in Segments /\ videos \subseteq Videos /\ others \in 0 .. CardBlocks
    /\ candidates \in Seq(0 .. MaxWall) /\ skipped \subseteq 0 .. MaxWall

VideoInit ==
    /\ requested = FALSE /\ job = FALSE /\ wall = 1 /\ begun = 0 /\ lastName = 0
    /\ segment = NoSegment /\ videos = {} /\ others = 0 /\ candidates = <<>> /\ skipped = {}
    /\ overwritten = FALSE /\ newerGone = FALSE

Used == Cardinality(videos) + others

----------------------------------------------------------------------------
(* M951 and M952, from a host or the controller; the answer is always "ok". *)
handle_recording_command(on) ==
    /\ requested' = on
    /\ UNCHANGED <<job, wall, begun, lastName, segment, videos, others, candidates, skipped,
                   overwritten, newerGone>>

JobChanges ==
    /\ job' = ~job
    /\ UNCHANGED <<requested, wall, begun, lastName, segment, videos, others, candidates, skipped,
                   overwritten, newerGone>>

recording_conditions_active == requested /\ job

advance_recording_segment(s) ==
    [s EXCEPT !.attempted = @ + 1, !.quiet = IF recording_conditions_active THEN @ ELSE @ + 1]

IsFull(s) == s.attempted >= FramesPerFile \/ s.quiet > QuietLimit

(* fopen with "wb" empties a file of that name; what is written to it, the  *)
(* whole segment or what the card still takes, stays.  The result is not    *)
(* looked at.                                                               *)
write_segment(s) ==
    LET same == {v \in videos : v.name = s.name}
    IN  \/ /\ Used = CardBlocks \/ "write" \in VideoFaults
           /\ UNCHANGED <<videos, overwritten>>
        \/ /\ Used < CardBlocks \/ same # {}
           /\ videos' = (videos \ same) \cup {[id |-> s.id, name |-> s.name, modified |-> wall]}
           /\ overwritten' = (overwritten \/ same # {})

close_segment(s) == segment' = NoSegment /\ write_segment(s)

(* One interval of the task with the segment that it has or begins.  A      *)
(* frame that cannot be captured counts as attempted.                       *)
RecordsInterval(s) ==
    /\ LET next == advance_recording_segment(s)
       IN  IF IsFull(next)
           THEN close_segment(s)
           ELSE segment' = next /\ UNCHANGED <<videos, overwritten>>
    /\ UNCHANGED <<requested, job, wall, others, candidates, skipped, newerGone>>

BeginSegment ==
    /\ segment = NoSegment /\ recording_conditions_active /\ begun < MaxSegments
    /\ QuickSegments \/ wall # lastName
    /\ begun' = begun + 1 /\ lastName' = wall
    /\ RecordsInterval([NoSegment EXCEPT !.id = begun + 1, !.name = wall])

GoOnRecording ==
    /\ segment # NoSegment /\ RecordsInterval(segment) /\ UNCHANGED <<begun, lastName>>

----------------------------------------------------------------------------
(* evaluate_storage_retention.                                              *)

TooFull(blocks) == blocks * 100 >= CardBlocks * 65

OldestFirst(list) ==
    \A i, j \in DOMAIN list : i < j =>
        \A v, w \in videos : v.name = list[i] /\ w.name = list[j] => v.modified <= w.modified

Listings == LET names == {v.name : v \in videos}
            IN  {list \in [1 .. Cardinality(names) -> names] :
                    \A n \in names : \E i \in DOMAIN list : list[i] = n}

(* A check that can read neither usage nor directory does nothing.          *)
run_check ==
    /\ candidates = <<>> /\ TooFull(Used)
    /\ \E list \in Listings : OldestFirst(list) /\ candidates' = list
    /\ skipped' = {}
    /\ UNCHANGED <<requested, job, wall, begun, lastName, segment, videos, others, overwritten,
                   newerGone>>

(* An older video that was not passed over; those of one second are alike.  *)
Older(u, v) == u.id < v.id /\ u.modified # v.modified /\ u.name \notin skipped

(* The next candidate: a file that is gone or cannot be removed is passed   *)
(* over; after a removal the usage decides whether to go on.                *)
PruneNext ==
    /\ candidates # <<>>
    /\ LET name == Head(candidates)
           gone == {v \in videos : v.name = name}
       IN  \/ /\ gone # {} /\ videos' = videos \ gone /\ UNCHANGED skipped
              /\ newerGone' = (newerGone \/ \E v \in gone, u \in videos : Older(u, v))
              /\ candidates' \in {IF TooFull(Used - 1) THEN Tail(candidates) ELSE <<>>}
                                  \cup (IF "usage" \in VideoFaults THEN {<<>>} ELSE {})
           \/ /\ gone = {} \/ "remove" \in VideoFaults
              /\ skipped' = skipped \cup {name} /\ candidates' = Tail(candidates)
              /\ UNCHANGED <<videos, newerGone>>
    /\ UNCHANGED <<requested, job, wall, begun, lastName, segment, others, overwritten>>

----------------------------------------------------------------------------
(* Hosts remove videos and add and remove other files.                      *)
HostRemoves(v) ==
    /\ videos' = videos \ {v}
    /\ UNCHANGED <<requested, job, wall, begun, lastName, segment, others, candidates, skipped,
                   overwritten, newerGone>>

HostStores ==
    /\ Used < CardBlocks /\ others' = others + 1
    /\ UNCHANGED <<requested, job, wall, begun, lastName, segment, videos, candidates, skipped,
                   overwritten, newerGone>>

Seconds ==
    /\ wall' \in {w \in 0 .. MaxWall : w = wall + 1 \/ ClockSteps}
    /\ UNCHANGED <<requested, job, begun, lastName, segment, videos, others, candidates, skipped,
                   overwritten, newerGone>>

(* A restart forgets the segment and, until a host sets it, the time.       *)
Restarts ==
    /\ requested' = FALSE /\ job' = FALSE /\ segment' = NoSegment
    /\ candidates' = <<>> /\ skipped' = {} /\ wall' = IF ClockSteps THEN 0 ELSE wall
    /\ UNCHANGED <<begun, lastName, videos, others, overwritten, newerGone>>

VideoNext ==
    \/ \E on \in BOOLEAN : handle_recording_command(on)
    \/ JobChanges \/ BeginSegment \/ GoOnRecording
    \/ run_check \/ PruneNext
    \/ \E v \in videos : HostRemoves(v)
    \/ HostStores \/ Seconds \/ Restarts

VideoSpec == VideoInit /\ [][VideoNext]_videoVars

----------------------------------------------------------------------------
(* Recordings are not lost to other recordings (recording_policy.cpp,       *)
(* storage_retention.cpp): no segment is written over an earlier one, and   *)
(* the retention task, which works from a list that hosts and the recording *)
(* task outdate meanwhile, never removes a video while an older one that it *)
(* could remove is left.                                                    *)
VideosKept == ~overwritten /\ ~newerGone
=============================================================================
