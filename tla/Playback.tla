------------------------------ MODULE Playback ------------------------------
(***************************************************************************)
(* Streamed playback: hosts prepare a file with a play command, the motion *)
(* controller starts it, asks for its lines, jumps in it and ends it.  The *)
(* session and the open file are shared, without a lock, by the tasks that *)
(* serve hosts (prepare) and the task that serves the controller.          *)
(*                                                                         *)
(* A line is what one PlayLineReader::read takes from the file; the n-th   *)
(* line of file f is <<f, n>>.  A path identifier is its path.             *)
(***************************************************************************)
EXTENDS Integers, Sequences

CONSTANTS
    Hosts,          \* connections that may send play commands
    Files,          \* files that can be opened
    Lines,          \* function: number of lines of each file
    TailEof,        \* files whose last line is read together with the end of file
    MaxLines,       \* lines of one data response (line limit and 512 bytes)
    MaxGeneration,  \* bound: preparations that succeed
    RepeatedPlay,   \* a host may send play again while it owns one
    Overlap,        \* a preparation may run between two reads of a data request
    PlayFaults          \* faults that may happen: "open", "read", "memory"

NoHost == "none"
NoFile == "none"

ASSUME HostsAssumption == NoHost \notin Hosts
ASSUME FilesAssumption ==
    /\ NoFile \notin Files /\ TailEof \subseteq Files
    /\ Lines \in [Files -> Nat \ {0}]
ASSUME BoundsAssumption == MaxLines \in Nat \ {0} /\ MaxGeneration \in Nat
ASSUME FlagsAssumption ==
    /\ RepeatedPlay \in BOOLEAN /\ Overlap \in BOOLEAN
    /\ PlayFaults \subseteq {"open", "read", "memory"}

VARIABLES
    connected,  \* hosts that are connected
    queued,     \* per host: file of the play command in its local queue
    owner,      \* Ownership::play_owner_
    preparer,   \* host whose command prepared the session, while it is connected
    opened,     \* file_open_
    running,    \* running_
    path,       \* path_
    generation, \* generation_
    handle,     \* active_play_file: its file, lines read, error indicator
    seen,       \* session_generation_ of the controller side
    line,       \* current_line_
    retained,   \* retained response: request index, lines of the response, buffer
    residual,   \* identifier_residual_
    request,    \* data request being read: its identifier, index, lines left to read, lines read
    sent        \* frames the last controller frame was answered with

session == <<opened, path, generation>>
reader  == <<seen, line, retained, residual>>
playVars == <<connected, queued, owner, preparer, session, running, handle, reader,
          request, sent>>

NoHandle   == [file |-> NoFile, pos |-> 0, broken |-> FALSE]
NoRequest  == [file |-> NoFile, index |-> 0, left |-> 0, lines |-> <<>>]
NoRetained == [index |-> 0, count |-> 0, lines |-> <<>>]

Line == Files \X Nat
Frame(kind) == [kind |-> kind, file |-> NoFile, index |-> 0, count |-> 0, lines |-> <<>>]
Data(f, i, n, ls) == [kind |-> "data", file |-> f, index |-> i, count |-> n, lines |-> ls]
Frames == [kind : {"start", "data", "progress", "complete", "error"},
           file : Files \union {NoFile}, index : Nat, count : Nat, lines : Seq(Line)]

PlayTypeOK ==
    /\ connected \subseteq Hosts
    /\ queued \in [Hosts -> Files \union {NoFile}]
    /\ owner \in connected \union {NoHost} /\ preparer \in connected \union {NoHost}
    /\ opened \in BOOLEAN /\ running \in BOOLEAN
    /\ path \in Files \union {NoFile} /\ generation \in 0..MaxGeneration
    /\ handle \in [file : Files \union {NoFile}, pos : Nat, broken : BOOLEAN]
    /\ seen \in 0..MaxGeneration /\ line \in Nat
    /\ retained \in [index : Nat, count : Nat, lines : Seq(Line)]
    /\ residual \in Files \union {NoFile}
    /\ request \in [file : Files \union {NoFile}, index : Nat, left : 0..MaxLines,
                  lines : Seq(Line)]
    /\ sent \in Seq(Frames)

PlayInit ==
    /\ connected = {} /\ queued = [h \in Hosts |-> NoFile]
    /\ owner = NoHost /\ preparer = NoHost
    /\ opened = FALSE /\ running = FALSE /\ path = NoFile /\ generation = 0
    /\ handle = NoHandle /\ seen = 0 /\ line = 0 /\ retained = NoRetained
    /\ residual = NoFile /\ request = NoRequest /\ sent = <<>>

-----------------------------------------------------------------------------
(* Hosts.                                                                   *)
Connect(h) ==
    /\ h \notin connected /\ connected' = connected \union {h}
    /\ UNCHANGED <<queued, owner, preparer, session, running, handle, reader, request, sent>>

(* The local command queue dies with the connection, and so does the play   *)
(* ownership of that connection; the session goes on.                       *)
Disconnect(h) ==
    /\ h \in connected /\ connected' = connected \ {h}
    /\ queued' = [queued EXCEPT ![h] = NoFile]
    /\ owner' = IF owner = h THEN NoHost ELSE owner
    /\ preparer' = IF preparer = h THEN NoHost ELSE preparer
    /\ UNCHANGED <<session, running, handle, reader, request, sent>>

(* A play command is received and waits in the host's local queue.          *)
ReceivePlay(h, f) ==
    /\ h \in connected /\ queued[h] = NoFile
    /\ RepeatedPlay \/ owner # h
    /\ queued' = [queued EXCEPT ![h] = f]
    /\ UNCHANGED <<connected, owner, preparer, session, running, handle, reader, request, sent>>

(* Mutant: claim_play that lets every host in.                              *)
may_claim_play_mutant(h) == TRUE

(* The test of claim_play: no owner, or the same connection again.          *)
may_claim_play(h) == owner = NoHost \/ owner = h

(* A play command is refused: another connection owns playback.             *)
PlayRefused(h) ==
    /\ queued[h] # NoFile /\ ~may_claim_play(h)
    /\ queued' = [queued EXCEPT ![h] = NoFile]
    /\ UNCHANGED <<connected, owner, preparer, session, running, handle, reader, request, sent>>

(* Mutant: a new file that keeps the old generation.                        *)
PrepareSameGeneration(h) ==
    /\ queued[h] # NoFile /\ may_claim_play(h)
    /\ Overlap \/ request = NoRequest
    /\ queued' = [queued EXCEPT ![h] = NoFile]
    /\ owner' = h /\ preparer' = h
    /\ opened' = TRUE /\ path' = queued[h]
    /\ handle' = [file |-> queued[h], pos |-> 0, broken |-> FALSE]
    /\ UNCHANGED <<connected, running, generation, reader, request, sent>>

(* prepare opens the file; the handle it replaces is set aside, not closed, *)
(* and a play that was running stays so.                                    *)
Prepare(h) ==
    /\ queued[h] # NoFile /\ may_claim_play(h)
    /\ Overlap \/ request = NoRequest
    /\ generation < MaxGeneration
    /\ queued' = [queued EXCEPT ![h] = NoFile]
    /\ owner' = h /\ preparer' = h
    /\ opened' = TRUE /\ path' = queued[h] /\ generation' = generation + 1
    /\ handle' = [file |-> queued[h], pos |-> 0, broken |-> FALSE]
    /\ UNCHANGED <<connected, running, reader, request, sent>>

(* prepare fails on a path that is too long (nothing changes) or a file     *)
(* that does not open (the session loses its file); the host releases.      *)
PrepareFails(h) ==
    /\ queued[h] # NoFile /\ may_claim_play(h)
    /\ "open" \in PlayFaults /\ (Overlap \/ request = NoRequest)
    /\ queued' = [queued EXCEPT ![h] = NoFile]
    /\ owner' = NoHost
    /\ opened' \in {opened, FALSE}
    /\ UNCHANGED <<connected, preparer, path, generation, running, handle, reader, request, sent>>

-----------------------------------------------------------------------------
(* The controller task.  Each frame first compares generations and keeps    *)
(* the identifier bytes it has (none in a frame that is too short).         *)
Idle == request = NoRequest
LineNow     == IF seen = generation THEN line ELSE 0
RetainedNow == IF seen = generation THEN retained ELSE NoRetained
Observed(id) == IF id = NoFile THEN residual ELSE id
Valid(id) == opened /\ Observed(id) = path

Receive(id) ==
    /\ Idle
    /\ seen' = generation /\ residual' = Observed(id)
    /\ UNCHANGED <<connected, queued>>

(* terminate, reset_read_state, release_play_ownership.                     *)
handle_terminal ==
    /\ handle' = NoHandle /\ running' = FALSE /\ opened' = FALSE /\ path' = NoFile
    /\ line' = 0 /\ retained' = NoRetained
    /\ owner' = NoHost /\ preparer' = NoHost

HandleTerminal(id) ==
    /\ Receive(id) /\ handle_terminal
    /\ sent' = <<>>
    /\ UNCHANGED <<generation, request>>

HandleStart(id) ==
    /\ Receive(id)
    /\ line' = LineNow /\ retained' = NoRetained
    /\ running' = (running \/ Valid(id))
    /\ sent' = <<Frame(IF Valid(id) THEN "start" ELSE "error")>>
    /\ UNCHANGED <<owner, preparer, session, handle, request>>

(* A frame that changes nothing but what every frame does: F2, F7, and the  *)
(* data and goto requests that are refused or find no memory for data.      *)
HandleRefused(id) ==
    /\ Receive(id)
    /\ line' = LineNow /\ retained' = RetainedNow
    /\ sent' \in {<<>>, <<Frame("complete")>>}
    /\ UNCHANGED <<owner, preparer, session, running, handle, request>>

(* Reading on to line n from the head of the file: where the handle ends,   *)
(* and whether the error indicator is set.  It is never cleared: fseek      *)
(* leaves it, and every later read of this handle fails.                    *)
Scanned(n) ==
    LET last == IF n <= Lines[handle.file] THEN n ELSE Lines[handle.file]
    IN  IF handle.broken THEN {[handle EXCEPT !.pos = 0]}
        ELSE {[handle EXCEPT !.pos = last]} \union
             (IF "read" \in PlayFaults
                THEN {[handle EXCEPT !.pos = k, !.broken = TRUE] : k \in 0..last}
                ELSE {})

(* seek_line: rewind and skip; the line is the target wherever it ended.    *)
seek_line(i) ==
    /\ line' = i
    /\ handle' \in Scanned(i)

(* A goto scan counts the lines it reads and reports where it is.           *)
HandleGoto(id, t) ==
    /\ Receive(id) /\ Valid(id)
    /\ \/ /\ retained' = NoRetained
          /\ handle' \in Scanned(IF t = 0 THEN 1 ELSE t)
          /\ line' = handle'.pos
          /\ sent' = IF handle'.broken THEN <<>> ELSE <<Frame("progress")>>
       \/ /\ "memory" \in PlayFaults
          /\ retained' = RetainedNow /\ line' = 0
          /\ handle' = [handle EXCEPT !.pos = 0]
          /\ sent' = <<Frame("error")>>
    /\ UNCHANGED <<owner, preparer, session, running, request>>

(* A retained response is sent again as long as it is not the next line.    *)
IsRetained(i) == RetainedNow.lines # <<>> /\ RetainedNow.index = i /\ i # LineNow

HandleRetained(id, i) ==
    /\ Receive(id) /\ Valid(id) /\ IsRetained(i)
    /\ line' = LineNow /\ retained' = RetainedNow
    /\ sent' = <<Data(path, i, retained.count, retained.lines)>>
    /\ UNCHANGED <<owner, preparer, session, running, handle, request>>

(* A data request that reads, from its index on, up to n lines.             *)
HandlePlayData(id, i, n) ==
    /\ Receive(id) /\ Valid(id) /\ ~IsRetained(i)
    /\ retained' = RetainedNow
    /\ IF i = LineNow THEN line' = LineNow /\ handle' = handle ELSE seek_line(i)
    /\ request' = [file |-> path, index |-> i, left |-> n, lines |-> <<>>]
    /\ sent' = <<>>
    /\ UNCHANGED <<owner, preparer, session, running>>

(* retain_response: the buffer is not cleared, so a response shorter than   *)
(* the buffer keeps what follows it.                                        *)
retain_response(i, ls) ==
    [index |-> i, count |-> Len(ls),
     lines |-> ls \o SubSeq(retained.lines, Len(ls) + 1, Len(retained.lines))]

(* The data loop ends with the lines ls it has read.                        *)
FinishData(ls, eof) ==
    LET data == IF ls = <<>> THEN <<>> ELSE <<Data(request.file, request.index, Len(ls), ls)>>
    IN  /\ request' = NoRequest
        /\ sent' = IF eof THEN Append(data, Frame("complete")) ELSE data
        /\ IF eof THEN handle_terminal /\ UNCHANGED <<generation>>
           ELSE /\ retained' = retain_response(request.index, ls)
                /\ UNCHANGED <<owner, preparer, session, running>>

(* One read of the data loop: a line, the end of the file, or a failure,    *)
(* which is answered by "complete" and forgets the lines read so far.       *)
ReadLine ==
    /\ ~Idle /\ handle.file # NoFile /\ ~handle.broken
    /\ handle.pos < Lines[handle.file]
    /\ LET n == handle.pos + 1
           ls == Append(request.lines, <<handle.file, n>>)
           eof == n = Lines[handle.file] /\ handle.file \in TailEof
       IN  IF eof THEN FinishData(ls, TRUE)
           ELSE /\ handle' = [handle EXCEPT !.pos = n] /\ line' = line + 1
                /\ IF request.left = 1 THEN FinishData(ls, FALSE)
                   ELSE /\ request' = [request EXCEPT !.left = @ - 1, !.lines = ls]
                        /\ UNCHANGED <<owner, preparer, session, running, retained, sent>>
    /\ UNCHANGED <<connected, queued, seen, residual>>

ReadEnd ==
    /\ ~Idle /\ handle.file # NoFile /\ ~handle.broken
    /\ handle.pos = Lines[handle.file]
    /\ FinishData(request.lines, TRUE)
    /\ UNCHANGED <<connected, queued, seen, residual>>

ReadFails ==
    /\ ~Idle /\ (handle.file = NoFile \/ handle.broken \/ "read" \in PlayFaults)
    /\ handle' = IF handle.file = NoFile THEN handle ELSE [handle EXCEPT !.broken = TRUE]
    /\ request' = NoRequest /\ sent' = <<Frame("complete")>>
    /\ UNCHANGED <<connected, queued, owner, preparer, session, running, reader>>

MaxIndex == CHOOSE n \in {Lines[f] + 1 : f \in Files} : \A f \in Files : Lines[f] < n

Host(h) ==
    \/ Connect(h) \/ Disconnect(h) \/ \E f \in Files : ReceivePlay(h, f)
    \/ PlayRefused(h) \/ Prepare(h) \/ PrepareFails(h)

Controller(id) ==
    \/ HandleTerminal(id) \/ HandleStart(id) \/ HandleRefused(id)
    \/ \E i \in 0..MaxIndex :
          \/ HandleGoto(id, i) \/ HandleRetained(id, i)
          \/ \E n \in 1..MaxLines : HandlePlayData(id, i, n)

PlayNext ==
    \/ \E h \in Hosts : Host(h)
    \/ \E id \in Files \union {NoFile} : Controller(id)
    \/ ReadLine \/ ReadEnd \/ ReadFails

PlaySpec == PlayInit /\ [][PlayNext]_playVars

-----------------------------------------------------------------------------
(* What the controller machines is what the label says: the lines of a data *)
(* response labelled with index i of the prepared file are its lines i + 1, *)
(* i + 2, ... whatever was sought, retained, replaced or failed before (a   *)
(* repeated response may carry a residue after them, see retain_response).  *)
LabelledData ==
    \A k \in DOMAIN sent :
        sent[k].kind = "data" =>
            \A n \in 1..sent[k].count :
                sent[k].lines[n] = <<sent[k].file, sent[k].index + n>>

(* The session says a file is open only while the shared handle is on it,   *)
(* so a request that is accepted reads the file it names.                   *)
OpenedHasHandle == opened => handle.file = path

(* "Releases playback ownership after cleanup": a play that runs is not     *)
(* replaced by another connection while its own one is still there.         *)
RunningPlayIsKept ==
    [][running /\ preparer # NoHost /\ generation' # generation
         => preparer' = preparer]_playVars

(* What is played is what was prepared: lines as labelled, read from the    *)
(* file the session names.                                                  *)
PlayIsFaithful == LabelledData /\ OpenedHasHandle
=============================================================================
