---------------------------- MODULE StreamProofs ----------------------------
(***************************************************************************)
(* What is read from the card is what was asked for: the proofs about      *)
(* downloads (FileDownload), about streamed playback (Playback) and about  *)
(* the lines it hands to the controller (PlayLineReader).                  *)
(***************************************************************************)
EXTENDS MCStreams, FiniteSetTheorems, WellFoundedInduction, TLAPS

(* Hosts ask for blocks that exist as 32-bit offsets fseek is called with. *)
InReach == Requests \subseteq 1..SeekBlocks

(* What has been sent last and what a retry would send.                    *)
FrameMade ==
    /\ response.kind = "data" => response.seq \in Requests
    /\ response.kind # "data" => response = Response(response.kind)
RetryKnown == last = "data" => lastSeq \in Requests
BelowUnexpected == active => unexpected < UnexpectedLimit

DownloadInv == DownloadTypeOK /\ OpenIffActive /\ FrameMade /\ RetryKnown /\ BelowUnexpected

(* Where a block is read: within the range of offsets, or where the file   *)
(* stands.                                                                 *)
LEMMA ReadFacts ==
    ASSUME DownloadTypeOK, NEW n \in Nat
    PROVE  ReadPosition(n) \in 0..(WrapBlocks + FileBlocks)
<1>1. Offset(n) \in 0..WrapBlocks - 1
  BY DownloadSizesAssumption DEF Offset
<1> QED
  BY <1>1, DownloadSizesAssumption DEF ReadPosition, DownloadTypeOK

(* A block in reach is read at its place.                                  *)
LEMMA ReachFacts ==
    ASSUME InReach, NEW n \in Requests
    PROVE  ReadPosition(n) = n - 1
<1>1. n \in 1..SeekBlocks /\ SeekBlocks \in 1..WrapBlocks /\ WrapBlocks \in Nat \ {0}
  BY DownloadSizesAssumption DEF InReach
<1>2. (n - 1) % WrapBlocks = n - 1
  <2>1. n - 1 \in 0..WrapBlocks - 1
    BY <1>1
  <2> QED
    BY <1>1, <2>1
<1> QED
  BY <1>1, <1>2 DEF ReadPosition, Offset

(* A data request, first or repeated, keeps the invariant.                 *)
LEMMA SendDataStep ==
    ASSUME DownloadInv, active, NEW n \in Requests, send_data(n),
           expired' \in BOOLEAN
    PROVE  DownloadInv'
<1> DEFINE at == ReadPosition(n)
<1>0. n \in Nat /\ at \in 0..(WrapBlocks + FileBlocks) /\ at \in Nat
  <2>1. n \in Nat
    BY DownloadRequestsAssumption
  <2>2. at \in 0..(WrapBlocks + FileBlocks)
    BY <2>1, ReadFacts DEF DownloadInv
  <2> QED
    BY <2>1, <2>2, DownloadSizesAssumption
<1>1. last' = "data" /\ lastSeq' = n
  BY DEF send_data
<1> HIDE DEF at
<1>2. CASE finish("cancel") /\ position' = at /\ UNCHANGED unexpected
  BY <1>0, <1>1, <1>2
     DEF finish, DownloadInv, DownloadTypeOK, OpenIffActive, FrameMade, RetryKnown,
         BelowUnexpected, Response
<1>3. CASE /\ at < FileBlocks /\ position' = at + 1
           /\ response' \in {DataFrame(n, at), response} /\ unexpected' \in {0, unexpected}
           /\ UNCHANGED <<active, fileOpen>>
  <2>1. position' \in 0..(WrapBlocks + FileBlocks)
    BY <1>0, <1>3, DownloadSizesAssumption
  <2>2. /\ response' \in [kind : {"none", "md5", "geometry", "data", "ok", "cancel"},
                          seq : Nat, block : Nat]
        /\ FrameMade'
    BY <1>0, <1>3 DEF DownloadInv, DownloadTypeOK, FrameMade, DataFrame, Response
  <2>3. unexpected' \in 0..UnexpectedLimit /\ BelowUnexpected'
    BY <1>3, DownloadSizesAssumption DEF DownloadInv, DownloadTypeOK, BelowUnexpected
  <2> QED
    BY <1>1, <1>3, <2>1, <2>2, <2>3
       DEF DownloadInv, DownloadTypeOK, OpenIffActive, RetryKnown
<1> QED
  BY <1>2, <1>3 DEF send_data, at

(* Every packet, timeout and reconnect keeps the invariant.                *)
LEMMA DownloadStep == DownloadInv /\ [DownloadNext]_downloadVars => DownloadInv'
<1> SUFFICES ASSUME DownloadInv, [DownloadNext]_downloadVars PROVE DownloadInv'
  OBVIOUS
<1> USE DownloadSizesAssumption
    DEF Response, DownloadInv, DownloadTypeOK, OpenIffActive, FrameMade, RetryKnown,
        BelowUnexpected
<1>1. CASE UNCHANGED downloadVars
  BY <1>1 DEF downloadVars
<1>2. CASE Start
  <2>1. position' \in 0..(WrapBlocks + FileBlocks) /\ unexpected' \in 0..UnexpectedLimit
    BY <1>2 DEF Start
  <2>2. response' = Response("md5") /\ lastSeq' = lastSeq /\ last' = "md5"
    BY <1>2 DEF Start
  <2>3. active' = TRUE /\ fileOpen' = TRUE /\ expired' = FALSE /\ BelowUnexpected'
    BY <1>2 DEF Start
  <2> QED
    BY <2>1, <2>2, <2>3
<1>3. CASE StartFails
  BY <1>3 DEF StartFails
<1>4. ASSUME active, expired' \in BOOLEAN, send_md5 PROVE DownloadInv'
  BY <1>4 DEF send_md5
<1>5. ASSUME active, expired' \in BOOLEAN, send_geometry PROVE DownloadInv'
  BY <1>5 DEF send_geometry
<1>6. ASSUME active, expired' \in BOOLEAN, retry_last PROVE DownloadInv'
  <2>1. CASE last = "data" /\ send_data(lastSeq)
    BY <1>6, <2>1, SendDataStep
  <2> QED
    BY <1>4, <1>5, <1>6, <2>1 DEF retry_last
<1>7. CASE HandleMd5
  BY <1>4, <1>7 DEF HandleMd5
<1>8. CASE HandleGeometry
  BY <1>5, <1>8 DEF HandleGeometry
<1>9. ASSUME NEW n \in Requests, HandleData(n) PROVE DownloadInv'
  BY <1>9, SendDataStep DEF HandleData
<1>10. CASE HandleRetry
  BY <1>6, <1>10 DEF HandleRetry
<1>11. CASE HandleOther
  <2>1. unexpected' \in 0..UnexpectedLimit /\ expired' = FALSE
        /\ UNCHANGED <<last, lastSeq, position>>
    BY <1>11 DEF HandleOther, record_unexpected
  <2>2. CASE unexpected' >= UnexpectedLimit
    <3>1. active' = FALSE /\ fileOpen' = FALSE /\ response' = Response("cancel")
      BY <1>11, <2>2 DEF HandleOther, record_unexpected, finish
    <3> QED
      BY <2>1, <3>1
  <2>3. CASE ~(unexpected' >= UnexpectedLimit)
    <3>1. UNCHANGED <<active, fileOpen, response>>
      BY <1>11, <2>3 DEF HandleOther, record_unexpected
    <3>2. unexpected' < UnexpectedLimit
      BY <2>1, <2>3
    <3> QED
      BY <2>1, <3>1, <3>2
  <2> QED
    BY <2>1, <2>2, <2>3
<1>12. ASSUME NEW reply \in {"ok", "cancel"}, HandleEnd(reply) PROVE DownloadInv'
  BY <1>12 DEF HandleEnd, finish
<1>13. CASE TimeOut
  BY <1>13 DEF TimeOut, finish
<1>14. CASE Resume
  BY <1>6, <1>14 DEF Resume
<1>15. CASE Expire
  BY <1>15 DEF Expire
<1> QED
  BY <1>1, <1>2, <1>3, <1>7, <1>8, <1>9, <1>10, <1>11, <1>12, <1>13, <1>14, <1>15
     DEF DownloadNext

(* A data packet that is made carries its block; other packets are not     *)
(* about any.                                                              *)
LEMMA LabelStep ==
    ASSUME InReach, DownloadInv, LabelMatchesBlock, [DownloadNext]_downloadVars
    PROVE  LabelMatchesBlock'
<1>1. CASE UNCHANGED response
  BY <1>1 DEF LabelMatchesBlock
<1>2. ASSUME NEW n \in Requests, send_data(n) PROVE LabelMatchesBlock'
  <2>1. ReadPosition(n) = n - 1 /\ n \in Nat \ {0}
    BY ReachFacts, DownloadSizesAssumption DEF InReach
  <2>2. \/ response' = DataFrame(n, n - 1) \/ response' = response
        \/ response' = Response("cancel")
    BY <1>2, <2>1 DEF send_data, finish
  <2> QED
    BY <2>1, <2>2 DEF LabelMatchesBlock, DataFrame, Response
<1>3. ASSUME NEW k \in {"md5", "geometry", "ok", "cancel"}, response' = Response(k)
      PROVE  LabelMatchesBlock'
  BY <1>3 DEF LabelMatchesBlock, Response
<1>4. CASE retry_last
  BY <1>2, <1>3, <1>4 DEF retry_last, send_md5, send_geometry, DownloadInv, RetryKnown
<1>5. CASE \/ Start \/ StartFails \/ HandleMd5 \/ HandleGeometry \/ HandleOther \/ TimeOut
           \/ Expire \/ \E reply \in {"ok", "cancel"} : HandleEnd(reply)
  BY <1>1, <1>3, <1>5
     DEF Start, StartFails, HandleMd5, HandleGeometry, HandleOther, TimeOut, Expire, HandleEnd,
         send_md5, send_geometry, record_unexpected, finish
<1> QED
  BY <1>1, <1>2, <1>4, <1>5 DEF DownloadNext, downloadVars, HandleData, HandleRetry, Resume

(* A retry of what was sent last makes the same frame, or gives up.        *)
LEMMA RetryStep ==
    ASSUME InReach, DownloadInv, LabelMatchesBlock, retry_last,
           response.kind = last, response.seq \in {0, lastSeq}
    PROVE  response' = response \/ response'.kind = "cancel"
<1>1. CASE last = "md5" /\ send_md5
  BY <1>1 DEF send_md5, DownloadInv, FrameMade
<1>2. CASE last = "geometry" /\ send_geometry
  BY <1>2 DEF send_geometry, DownloadInv, FrameMade
<1>3. CASE last = "data" /\ send_data(lastSeq)
  <2>1. lastSeq \in Requests /\ response.seq = lastSeq /\ response.block = lastSeq - 1
    BY <1>3, DownloadSizesAssumption
       DEF DownloadInv, RetryKnown, FrameMade, InReach, LabelMatchesBlock
  <2>2. response = DataFrame(lastSeq, lastSeq - 1)
    BY <1>3, <2>1 DEF DownloadInv, DownloadTypeOK, DataFrame
  <2>3. \/ response' = DataFrame(lastSeq, lastSeq - 1) \/ response' = response
        \/ response' = Response("cancel")
    BY <1>3, <2>1, ReachFacts DEF send_data, finish
  <2> QED
    BY <2>2, <2>3 DEF Response
<1> QED
  BY <1>1, <1>2, <1>3 DEF retry_last

(* A download that has not begun.                                          *)
LEMMA DownloadStarts == DownloadInit => DownloadInv /\ LabelMatchesBlock
<1> SUFFICES ASSUME DownloadInit PROVE DownloadInv /\ LabelMatchesBlock
  OBVIOUS
<1>1. response = Response("none") /\ response.kind = "none"
  BY DEF DownloadInit, Response
<1>2. position \in 0..(WrapBlocks + FileBlocks) /\ unexpected \in 0..UnexpectedLimit
  BY DownloadSizesAssumption DEF DownloadInit
<1>3. response \in [kind : {"none", "md5", "geometry", "data", "ok", "cancel"},
                   seq : Nat, block : Nat]
  BY <1>1 DEF Response
<1>4. DownloadTypeOK
  BY <1>2, <1>3 DEF DownloadInit, DownloadTypeOK
<1> QED
  BY <1>1, <1>4, DownloadSizesAssumption
     DEF DownloadInit, DownloadInv, OpenIffActive, FrameMade, RetryKnown, BelowUnexpected,
         LabelMatchesBlock

(* A download keeps its types and its file open as long as it is active,   *)
(* whatever blocks hosts ask for (file_download.cpp).                      *)
THEOREM DownloadTypes == DownloadSpec => [](DownloadTypeOK /\ OpenIffActive)
<1> QED
  BY DownloadStarts, DownloadStep, PTL DEF DownloadSpec, DownloadInv

(* Every packet of a download holds the block it is labelled with, the     *)
(* file is open as long as it is read, and a retry repeats what was sent,  *)
(* for files and requests that fseek can reach (send_data, retry_last).    *)
THEOREM DownloadsAreFaithful ==
    ASSUME InReach
    PROVE  DownloadSpec => DownloadIsFaithful
<1>1. DownloadInv /\ LabelMatchesBlock /\ [DownloadNext]_downloadVars
        => (DownloadInv /\ LabelMatchesBlock)'
  BY DownloadStep, LabelStep
<1>2. DownloadInv /\ LabelMatchesBlock /\ [DownloadNext]_downloadVars
        => [(HandleRetry \/ Resume) /\ response.kind = last /\ response.seq \in {0, lastSeq}
               => response' = response \/ response'.kind = "cancel"]_downloadVars
  BY RetryStep DEF HandleRetry, Resume
<1> QED
  BY <1>1, <1>2, DownloadStarts, PTL DEF DownloadSpec, DownloadIsFaithful, RetryRepeats, DownloadInv
-----------------------------------------------------------------------------
(* The parts of Playback's type invariant: hosts, session, reader.         *)
HostTypes ==
    /\ connected \subseteq Hosts /\ queued \in [Hosts -> Files \union {NoFile}]
    /\ owner \in connected \union {NoHost} /\ preparer \in connected \union {NoHost}
SessionTypes ==
    /\ opened \in BOOLEAN /\ running \in BOOLEAN
    /\ path \in Files \union {NoFile} /\ generation \in 0..MaxGeneration
    /\ handle \in [file : Files \union {NoFile}, pos : Nat, broken : BOOLEAN]
ReaderTypes ==
    /\ seen \in 0..MaxGeneration /\ line \in Nat
    /\ retained \in [index : Nat, count : Nat, lines : Seq(Line)]
    /\ residual \in Files \union {NoFile}
RequestTypes ==
    /\ request \in [file : Files \union {NoFile}, index : Nat, left : 0..MaxLines,
                    lines : Seq(Line)]
    /\ request # NoRequest => request.left >= 1 /\ request.file \in Files
SentTypes == sent \in Seq(Frames)

(* Only connected hosts have commands, only files are open.                *)
QueuedConnected == \A h \in Hosts : queued[h] # NoFile => h \in connected
OpenedFile == opened => path \in Files /\ handle.file = path

PlayInv ==
    /\ HostTypes /\ SessionTypes /\ ReaderTypes /\ RequestTypes /\ SentTypes
    /\ QueuedConnected /\ OpenedFile

(* The invariant has the types that Playback declares.                     *)
LEMMA PlayInvFacts == PlayInv => PlayTypeOK /\ OpenedHasHandle
BY DEF PlayInv, PlayTypeOK, OpenedHasHandle, HostTypes, SessionTypes, ReaderTypes, RequestTypes,
       SentTypes, OpenedFile

(* Frames that are made.                                                   *)
LEMMA MadeFrames ==
    /\ \A k \in {"start", "progress", "complete", "error"} :
          Frame(k) \in Frames /\ <<Frame(k)>> \in Seq(Frames) /\ Frame(k).kind = k
    /\ <<>> \in Seq(Frames)
BY DEF Frame, Frames

(* A data response, alone and before "complete".                           *)
LEMMA MadeData ==
    ASSUME NEW f \in Files, NEW i \in Nat, NEW n \in Nat, NEW ls \in Seq(Line)
    PROVE  /\ Data(f, i, n, ls) \in Frames /\ <<Data(f, i, n, ls)>> \in Seq(Frames)
           /\ Append(<<Data(f, i, n, ls)>>, Frame("complete")) \in Seq(Frames)
<1>1. Data(f, i, n, ls) \in Frames
  BY DEF Data, Frames
<1>2. <<Data(f, i, n, ls)>> \in Seq(Frames)
  BY <1>1
<1> QED
  BY <1>1, <1>2, MadeFrames

(* Where a scan leaves the handle.                                         *)
LEMMA ScanFacts ==
    ASSUME SessionTypes, OpenedFile, opened, NEW n \in Nat, NEW h \in Scanned(n)
    PROVE  /\ h \in [file : Files \union {NoFile}, pos : Nat, broken : BOOLEAN]
           /\ h.file = handle.file /\ (handle.broken => h.broken)
           /\ ~h.broken => \/ h.pos = n /\ n <= Lines[handle.file]
                           \/ h.pos = Lines[handle.file] /\ n > Lines[handle.file]
<1>1. handle.file \in Files /\ Lines[handle.file] \in Nat \ {0}
  BY FilesAssumption DEF OpenedFile
<1> DEFINE end == IF n <= Lines[handle.file] THEN n ELSE Lines[handle.file]
<1>2. end \in Nat /\ \/ end = n /\ n <= Lines[handle.file]
                     \/ end = Lines[handle.file] /\ n > Lines[handle.file]
  BY <1>1
<1> HIDE DEF end
<1>3. CASE handle.broken
  <2>1. h = [handle EXCEPT !.pos = 0]
    BY <1>3 DEF Scanned
  <2> QED
    BY <1>3, <2>1 DEF SessionTypes
<1>4. CASE ~handle.broken
  <2>1. \/ h = [handle EXCEPT !.pos = end]
        \/ \E k \in 0..end : h = [handle EXCEPT !.pos = k, !.broken = TRUE]
    BY <1>4 DEF Scanned, end
  <2>2. CASE h = [handle EXCEPT !.pos = end]
    BY <1>2, <1>4, <2>2 DEF SessionTypes
  <2>3. CASE \E k \in 0..end : h = [handle EXCEPT !.pos = k, !.broken = TRUE]
    <3>1. PICK k \in 0..end : h = [handle EXCEPT !.pos = k, !.broken = TRUE]
      BY <2>3
    <3>2. k \in Nat
      BY <1>2
    <3>3. h = [file |-> handle.file, pos |-> k, broken |-> TRUE]
      BY <3>1 DEF SessionTypes
    <3> QED
      BY <1>1, <3>2, <3>3
  <2> QED
    BY <2>1, <2>2, <2>3
<1> QED
  BY <1>3, <1>4

(* A session that has ended.                                               *)
LEMMA TerminalStep ==
    ASSUME PlayInv, handle_terminal, UNCHANGED <<connected, queued, generation>>,
           seen' \in 0..MaxGeneration, residual' \in Files \union {NoFile}
    PROVE  HostTypes' /\ SessionTypes' /\ ReaderTypes' /\ QueuedConnected' /\ OpenedFile'
<1>1. HostTypes' /\ QueuedConnected' /\ OpenedFile'
  BY DEF PlayInv, handle_terminal, HostTypes, QueuedConnected, OpenedFile
<1>2. SessionTypes'
  BY DEF PlayInv, handle_terminal, SessionTypes, NoHandle
<1>3. ReaderTypes'
  BY DEF handle_terminal, ReaderTypes, NoRetained
<1> QED
  BY <1>1, <1>2, <1>3

(* What every frame of the controller does first.                          *)
LEMMA ReceiveFacts ==
    ASSUME PlayInv, NEW id \in Files \union {NoFile}, Receive(id)
    PROVE  /\ seen' \in 0..MaxGeneration /\ residual' \in Files \union {NoFile}
           /\ UNCHANGED <<connected, queued>> /\ request = NoRequest
           /\ LineNow \in Nat /\ RetainedNow \in [index : Nat, count : Nat, lines : Seq(Line)]
BY DEF PlayInv, Receive, Observed, Idle, LineNow, RetainedNow, SessionTypes, ReaderTypes,
       NoRetained

(* The steps of hosts.                                                     *)
LEMMA HostKeeps ==
    ASSUME PlayInv, NEW h \in Hosts, Host(h)
    PROVE  PlayInv'
<1> USE DEF PlayInv
<1>1. CASE Connect(h)
  BY <1>1
     DEF Connect, session, reader, HostTypes, SessionTypes, ReaderTypes, RequestTypes, SentTypes,
         QueuedConnected, OpenedFile
<1>2. CASE Disconnect(h)
  BY <1>2, HostsAssumption
     DEF Disconnect, session, reader, HostTypes, SessionTypes, ReaderTypes, RequestTypes,
         SentTypes, QueuedConnected, OpenedFile
<1>3. ASSUME NEW f \in Files, ReceivePlay(h, f) PROVE PlayInv'
  BY <1>3
     DEF ReceivePlay, session, reader, HostTypes, SessionTypes, ReaderTypes, RequestTypes,
         SentTypes, QueuedConnected, OpenedFile
<1>4. CASE PlayRefused(h)
  BY <1>4
     DEF PlayRefused, session, reader, HostTypes, SessionTypes, ReaderTypes, RequestTypes,
         SentTypes, QueuedConnected, OpenedFile
<1>5. CASE Prepare(h)
  <2>1. h \in connected /\ queued[h] \in Files
    BY <1>5 DEF Prepare, HostTypes, QueuedConnected
  <2>2. HostTypes' /\ QueuedConnected'
    BY <1>5, <2>1 DEF Prepare, HostTypes, QueuedConnected
  <2>3. SessionTypes' /\ OpenedFile'
    BY <1>5, <2>1, BoundsAssumption DEF Prepare, SessionTypes, OpenedFile
  <2>4. ReaderTypes' /\ RequestTypes' /\ SentTypes'
    BY <1>5 DEF Prepare, reader, ReaderTypes, RequestTypes, SentTypes
  <2> QED
    BY <2>2, <2>3, <2>4
<1>6. CASE PrepareFails(h)
  <2>1. HostTypes' /\ QueuedConnected'
    BY <1>6 DEF PrepareFails, HostTypes, QueuedConnected
  <2>2. UNCHANGED <<path, generation, running, handle>> /\ opened' \in {opened, FALSE}
    BY <1>6 DEF PrepareFails
  <2>3. SessionTypes' /\ OpenedFile'
    <3>1. CASE opened' = opened
      BY <2>2, <3>1 DEF SessionTypes, OpenedFile
    <3>2. CASE opened' = FALSE
      BY <2>2, <3>2 DEF SessionTypes, OpenedFile
    <3> QED
      BY <2>2, <3>1, <3>2
  <2>4. ReaderTypes' /\ RequestTypes' /\ SentTypes'
    BY <1>6 DEF PrepareFails, reader, ReaderTypes, RequestTypes, SentTypes
  <2> QED
    BY <2>1, <2>3, <2>4
<1> QED
  BY <1>1, <1>2, <1>3, <1>4, <1>5, <1>6 DEF Host

(* The frames of the controller.                                           *)
LEMMA ControllerKeeps ==
    ASSUME PlayInv, NEW id \in Files \union {NoFile}, Controller(id)
    PROVE  PlayInv'
<1> USE DEF PlayInv
<1>1. CASE HandleTerminal(id)
  <2>1. HostTypes' /\ SessionTypes' /\ ReaderTypes' /\ QueuedConnected' /\ OpenedFile'
    BY <1>1, ReceiveFacts, TerminalStep DEF HandleTerminal
  <2>2. RequestTypes' /\ SentTypes'
    BY <1>1, MadeFrames DEF HandleTerminal, RequestTypes, SentTypes
  <2> QED
    BY <2>1, <2>2
<1>2. CASE HandleStart(id)
  <2>1. /\ Receive(id) /\ line' = LineNow /\ retained' = NoRetained
        /\ running' = (running \/ Valid(id))
        /\ UNCHANGED <<owner, preparer, opened, path, generation, handle, request>>
    BY <1>2 DEF HandleStart, session
  <2>2. HostTypes' /\ QueuedConnected' /\ OpenedFile' /\ RequestTypes'
    BY <2>1, ReceiveFacts DEF HostTypes, QueuedConnected, OpenedFile, RequestTypes
  <2>3. SessionTypes'
    BY <2>1 DEF SessionTypes
  <2>4. ReaderTypes'
    BY <2>1, ReceiveFacts DEF ReaderTypes, NoRetained
  <2>5. SentTypes'
    BY <1>2, MadeFrames DEF HandleStart, SentTypes
  <2> QED
    BY <2>2, <2>3, <2>4, <2>5
<1>3. CASE HandleRefused(id)
  <2>1. /\ Receive(id) /\ line' = LineNow /\ retained' = RetainedNow
        /\ UNCHANGED <<owner, preparer, opened, path, generation, running, handle, request>>
    BY <1>3 DEF HandleRefused, session
  <2>2. HostTypes' /\ QueuedConnected' /\ OpenedFile' /\ RequestTypes' /\ SessionTypes'
    BY <2>1, ReceiveFacts DEF HostTypes, QueuedConnected, OpenedFile, RequestTypes, SessionTypes
  <2>3. ReaderTypes'
    BY <2>1, ReceiveFacts DEF ReaderTypes
  <2>4. SentTypes'
    BY <1>3, MadeFrames DEF HandleRefused, SentTypes
  <2> QED
    BY <2>2, <2>3, <2>4
<1>4. ASSUME NEW i \in 0..MaxIndex, HandleGoto(id, i) PROVE PlayInv'
  <2>1. /\ Receive(id) /\ opened
        /\ UNCHANGED <<owner, preparer, opened, path, generation, running, request>>
    BY <1>4 DEF HandleGoto, Valid, session
  <2>2. /\ handle' \in [file : Files \union {NoFile}, pos : Nat, broken : BOOLEAN]
        /\ handle'.file = handle.file /\ line' \in Nat
    <3>1. CASE handle' \in Scanned(IF i = 0 THEN 1 ELSE i) /\ line' = handle'.pos
      <4>1. (IF i = 0 THEN 1 ELSE i) \in Nat
        OBVIOUS
      <4> QED
        BY <2>1, <3>1, <4>1, ScanFacts
    <3>2. CASE line' = 0 /\ handle' = [handle EXCEPT !.pos = 0]
      BY <3>2 DEF SessionTypes
    <3> QED
      BY <1>4, <3>1, <3>2 DEF HandleGoto
  <2>3. HostTypes' /\ QueuedConnected' /\ OpenedFile' /\ RequestTypes' /\ SessionTypes'
    BY <2>1, <2>2, ReceiveFacts
       DEF HostTypes, QueuedConnected, OpenedFile, RequestTypes, SessionTypes
  <2>4. retained' \in [index : Nat, count : Nat, lines : Seq(Line)]
    <3>1. NoRetained \in [index : Nat, count : Nat, lines : Seq(Line)]
      BY DEF NoRetained
    <3>2. retained' \in {NoRetained, RetainedNow}
      BY <1>4 DEF HandleGoto
    <3> QED
      BY <2>1, <3>1, <3>2, ReceiveFacts
  <2>5. ReaderTypes'
    BY <2>1, <2>2, <2>4, ReceiveFacts DEF ReaderTypes
  <2>6. SentTypes'
    BY <1>4, MadeFrames DEF HandleGoto, SentTypes
  <2> QED
    BY <2>3, <2>5, <2>6
<1>5. ASSUME NEW i \in 0..MaxIndex, HandleRetained(id, i) PROVE PlayInv'
  <2>1. /\ Receive(id) /\ line' = LineNow /\ retained' = RetainedNow /\ opened
        /\ UNCHANGED <<owner, preparer, opened, path, generation, running, handle, request>>
        /\ sent' = <<Data(path, i, retained.count, retained.lines)>>
    BY <1>5 DEF HandleRetained, Valid, session
  <2>2. HostTypes' /\ QueuedConnected' /\ OpenedFile' /\ RequestTypes' /\ SessionTypes'
    BY <2>1, ReceiveFacts DEF HostTypes, QueuedConnected, OpenedFile, RequestTypes, SessionTypes
  <2>3. ReaderTypes'
    BY <2>1, ReceiveFacts DEF ReaderTypes
  <2>4. path \in Files /\ i \in Nat /\ retained.count \in Nat /\ retained.lines \in Seq(Line)
    BY <2>1 DEF ReaderTypes, OpenedFile
  <2>5. SentTypes'
    BY <2>1, <2>4, MadeData DEF SentTypes
  <2> QED
    BY <2>2, <2>3, <2>5
<1>6. ASSUME NEW i \in 0..MaxIndex, NEW n \in 1..MaxLines, HandlePlayData(id, i, n)
      PROVE  PlayInv'
  <2>1. /\ Receive(id) /\ retained' = RetainedNow /\ opened /\ sent' = <<>> /\ i \in Nat
        /\ request' = [file |-> path, index |-> i, left |-> n, lines |-> <<>>]
        /\ UNCHANGED <<owner, preparer, opened, path, generation, running>>
    BY <1>6 DEF HandlePlayData, Valid, session
  <2>2. /\ handle' \in [file : Files \union {NoFile}, pos : Nat, broken : BOOLEAN]
        /\ handle'.file = handle.file /\ line' \in Nat
    <3>1. CASE line' = i /\ handle' \in Scanned(i)
      BY <2>1, <3>1, ScanFacts
    <3>2. CASE line' = LineNow /\ handle' = handle
      BY <2>1, <3>2, ReceiveFacts DEF SessionTypes
    <3> QED
      BY <1>6, <3>1, <3>2 DEF HandlePlayData, seek_line
  <2>3. HostTypes' /\ QueuedConnected' /\ OpenedFile' /\ SessionTypes'
    BY <2>1, <2>2, ReceiveFacts DEF HostTypes, QueuedConnected, OpenedFile, SessionTypes
  <2>4. ReaderTypes'
    BY <2>1, <2>2, ReceiveFacts DEF ReaderTypes
  <2>5. RequestTypes'
    <3>1. path \in Files /\ <<>> \in Seq(Line) /\ n \in 0..MaxLines /\ n >= 1
      BY <2>1, BoundsAssumption DEF OpenedFile
    <3> QED
      BY <2>1, <3>1 DEF RequestTypes
  <2>6. SentTypes'
    BY <2>1, MadeFrames DEF SentTypes
  <2> QED
    BY <2>3, <2>4, <2>5, <2>6
<1> QED
  BY <1>1, <1>2, <1>3, <1>4, <1>5, <1>6 DEF Controller

(* A response that is retained is a sequence of lines.                     *)
LEMMA RetainFacts ==
    ASSUME ReaderTypes, NEW i \in Nat, NEW ls \in Seq(Line)
    PROVE  /\ retain_response(i, ls) \in [index : Nat, count : Nat, lines : Seq(Line)]
           /\ Len(ls) <= Len(retain_response(i, ls).lines)
           /\ \A n \in 1..Len(ls) : retain_response(i, ls).lines[n] = ls[n]
<1> DEFINE rest == SubSeq(retained.lines, Len(ls) + 1, Len(retained.lines))
<1>1. retained.lines \in Seq(Line) /\ Len(ls) \in Nat /\ Len(retained.lines) \in Nat
  BY DEF ReaderTypes
<1>2. rest \in Seq(Line)
  BY <1>1
<1> HIDE DEF rest
<1>3. /\ ls \o rest \in Seq(Line) /\ Len(ls) <= Len(ls \o rest)
      /\ \A n \in 1..Len(ls) : (ls \o rest)[n] = ls[n]
  BY <1>2
<1>4. retain_response(i, ls) = [index |-> i, count |-> Len(ls), lines |-> ls \o rest]
  BY DEF retain_response, rest
<1> QED
  BY <1>1, <1>3, <1>4

(* The steps of the data loop.                                             *)
LEMMA FinishKeeps ==
    ASSUME PlayInv, NEW ls \in Seq(Line), NEW eof \in BOOLEAN, request # NoRequest,
           FinishData(ls, eof), UNCHANGED <<connected, queued, seen, residual>>,
           ~eof => /\ handle' \in [file : Files \union {NoFile}, pos : Nat, broken : BOOLEAN]
                   /\ handle'.file = handle.file /\ line' \in Nat
    PROVE  PlayInv'
<1> USE DEF PlayInv
<1>1. request.file \in Files /\ request.index \in Nat /\ Len(ls) \in Nat
  BY DEF RequestTypes
<1>2. RequestTypes'
  <2>1. request' = NoRequest
    BY DEF FinishData
  <2>2. NoRequest \in [file : Files \union {NoFile}, index : Nat, left : 0..MaxLines,
                       lines : Seq(Line)]
    BY BoundsAssumption DEF NoRequest
  <2> QED
    BY <2>1, <2>2 DEF RequestTypes
<1>3. SentTypes'
  <2> DEFINE data == IF ls = <<>> THEN <<>>
                     ELSE <<Data(request.file, request.index, Len(ls), ls)>>
  <2>1. data \in Seq(Frames) /\ Append(data, Frame("complete")) \in Seq(Frames)
    <3>1. CASE ls = <<>>
      BY <3>1, MadeFrames
    <3>2. CASE ls # <<>>
      BY <1>1, <3>2, MadeData
    <3> QED
      BY <3>1, <3>2
  <2>2. sent' = IF eof THEN Append(data, Frame("complete")) ELSE data
    BY DEF FinishData
  <2> QED
    BY <2>1, <2>2 DEF SentTypes
<1>4. CASE eof
  <2>1. handle_terminal /\ UNCHANGED generation
    BY <1>4 DEF FinishData
  <2>2. seen' \in 0..MaxGeneration /\ residual' \in Files \union {NoFile}
    BY DEF ReaderTypes
  <2> QED
    BY <1>2, <1>3, <2>1, <2>2, TerminalStep
<1>5. CASE ~eof
  <2>1. /\ retained' = retain_response(request.index, ls)
        /\ UNCHANGED <<owner, preparer, opened, path, generation, running>>
    BY <1>5 DEF FinishData, session
  <2>2. HostTypes' /\ QueuedConnected' /\ OpenedFile' /\ SessionTypes'
    BY <1>5, <2>1 DEF HostTypes, QueuedConnected, OpenedFile, SessionTypes
  <2>3. ReaderTypes'
    BY <1>1, <1>5, <2>1, RetainFacts DEF ReaderTypes
  <2> QED
    BY <1>2, <1>3, <2>2, <2>3
<1> QED
  BY <1>4, <1>5

(* What a read of a line appends.                                          *)
LEMMA ReadFactsOfLine ==
    ASSUME PlayInv, handle.file # NoFile, handle.pos < Lines[handle.file]
    PROVE  /\ handle.file \in Files /\ handle.pos + 1 \in Nat
           /\ Append(request.lines, <<handle.file, handle.pos + 1>>) \in Seq(Line)
           /\ [handle EXCEPT !.pos = handle.pos + 1]
                 = [file |-> handle.file, pos |-> handle.pos + 1, broken |-> handle.broken]
<1>1. handle.file \in Files /\ handle.pos \in Nat /\ request.lines \in Seq(Line)
  BY DEF PlayInv, SessionTypes, RequestTypes
<1>2. <<handle.file, handle.pos + 1>> \in Line
  BY <1>1 DEF Line
<1>3. [handle EXCEPT !.pos = handle.pos + 1]
        = [file |-> handle.file, pos |-> handle.pos + 1, broken |-> handle.broken]
  BY DEF PlayInv, SessionTypes
<1> QED
  BY <1>1, <1>2, <1>3

(* One read of the data loop.                                              *)
LEMMA LoopKeeps ==
    ASSUME PlayInv, ReadLine \/ ReadEnd \/ ReadFails
    PROVE  PlayInv'
<1> USE DEF PlayInv
<1>1. CASE ReadLine
  <2> DEFINE n == handle.pos + 1
             ls == Append(request.lines, <<handle.file, n>>)
             eof == n = Lines[handle.file] /\ handle.file \in TailEof
  <2>1. /\ request # NoRequest /\ UNCHANGED <<connected, queued, seen, residual>>
        /\ handle.file # NoFile /\ handle.pos < Lines[handle.file]
    BY <1>1 DEF ReadLine, Idle
  <2>2. /\ handle.file \in Files /\ n \in Nat /\ ls \in Seq(Line)
        /\ [handle EXCEPT !.pos = n]
              = [file |-> handle.file, pos |-> n, broken |-> handle.broken]
    BY <2>1, ReadFactsOfLine
  <2>3. IF eof THEN FinishData(ls, TRUE)
        ELSE /\ handle' = [handle EXCEPT !.pos = n] /\ line' = line + 1
             /\ IF request.left = 1 THEN FinishData(ls, FALSE)
                ELSE /\ request' = [request EXCEPT !.left = @ - 1, !.lines = ls]
                     /\ UNCHANGED <<owner, preparer, session, running, retained, sent>>
    BY <1>1 DEF ReadLine
  <2> HIDE DEF n, ls, eof
  <2>4. CASE eof
    BY <2>1, <2>2, <2>3, <2>4, FinishKeeps
  <2>5. CASE ~eof
    <3>1. /\ handle' \in [file : Files \union {NoFile}, pos : Nat, broken : BOOLEAN]
          /\ handle'.file = handle.file /\ line' \in Nat
      BY <2>2, <2>3, <2>5 DEF SessionTypes, ReaderTypes
    <3>2. CASE request.left = 1
      BY <2>1, <2>2, <2>3, <2>5, <3>1, <3>2, FinishKeeps
    <3>3. CASE request.left # 1
      <4>1. /\ request' = [request EXCEPT !.left = @ - 1, !.lines = ls]
            /\ UNCHANGED <<owner, preparer, opened, path, generation, running, retained, sent>>
        BY <2>3, <2>5, <3>3 DEF session
      <4>2. request' = [file |-> request.file, index |-> request.index,
                        left |-> request.left - 1, lines |-> ls]
        BY <4>1 DEF RequestTypes
      <4>3. request.left - 1 \in 1..MaxLines /\ request.file \in Files /\ request.index \in Nat
        BY <2>1, <3>3, BoundsAssumption DEF RequestTypes
      <4>4. RequestTypes'
        BY <2>2, <4>2, <4>3 DEF RequestTypes
      <4>5. HostTypes' /\ QueuedConnected' /\ OpenedFile' /\ SessionTypes' /\ SentTypes'
        BY <2>1, <3>1, <4>1 DEF HostTypes, QueuedConnected, OpenedFile, SessionTypes, SentTypes
      <4>6. ReaderTypes'
        BY <2>1, <3>1, <4>1 DEF ReaderTypes
      <4> QED
        BY <4>4, <4>5, <4>6
    <3> QED
      BY <3>2, <3>3
  <2> QED
    BY <2>4, <2>5
<1>2. CASE ReadEnd
  <2>1. request.lines \in Seq(Line)
    BY DEF RequestTypes
  <2> QED
    BY <1>2, <2>1, FinishKeeps DEF ReadEnd, Idle
<1>3. CASE ReadFails
  <2>1. /\ request' = NoRequest /\ sent' = <<Frame("complete")>>
        /\ UNCHANGED <<connected, queued, owner, preparer, opened, path, generation, running,
                       seen, line, retained, residual>>
    BY <1>3 DEF ReadFails, session, reader
  <2>2. /\ handle' \in [file : Files \union {NoFile}, pos : Nat, broken : BOOLEAN]
        /\ handle'.file = handle.file
    BY <1>3 DEF ReadFails, SessionTypes
  <2>3. HostTypes' /\ QueuedConnected' /\ OpenedFile' /\ SessionTypes' /\ ReaderTypes'
    BY <2>1, <2>2 DEF HostTypes, QueuedConnected, OpenedFile, SessionTypes, ReaderTypes
  <2>4. NoRequest \in [file : Files \union {NoFile}, index : Nat, left : 0..MaxLines,
                       lines : Seq(Line)]
    BY BoundsAssumption DEF NoRequest
  <2> QED
    BY <2>1, <2>3, <2>4, MadeFrames DEF RequestTypes, SentTypes
<1> QED
  BY <1>1, <1>2, <1>3

(* Playback begins with nobody connected.                                  *)
LEMMA PlayStarts == PlayInit => PlayInv
<1> SUFFICES ASSUME PlayInit PROVE PlayInv
  OBVIOUS
<1>1. HostTypes /\ QueuedConnected /\ OpenedFile
  BY DEF PlayInit, HostTypes, QueuedConnected, OpenedFile
<1>2. SessionTypes
  <2>1. NoHandle \in [file : Files \union {NoFile}, pos : Nat, broken : BOOLEAN]
    BY DEF NoHandle
  <2>2. 0 \in 0..MaxGeneration
    BY BoundsAssumption
  <2>3. opened \in BOOLEAN /\ running \in BOOLEAN
    BY Zenon DEF PlayInit
  <2>4. path \in Files \union {NoFile} /\ generation \in 0..MaxGeneration /\ handle = NoHandle
    BY <2>2 DEF PlayInit
  <2> QED
    BY <2>1, <2>3, <2>4 DEF SessionTypes
<1>3. ReaderTypes
  BY BoundsAssumption DEF PlayInit, ReaderTypes, NoRetained
<1>4. NoRequest \in [file : Files \union {NoFile}, index : Nat, left : 0..MaxLines,
                     lines : Seq(Line)]
  BY BoundsAssumption DEF NoRequest
<1>5. RequestTypes /\ SentTypes
  BY <1>4, MadeFrames DEF PlayInit, RequestTypes, SentTypes
<1> QED
  BY <1>1, <1>2, <1>3, <1>5 DEF PlayInv

(* Every step keeps the invariant.                                         *)
LEMMA PlayStep == PlayInv /\ [PlayNext]_playVars => PlayInv'
<1> SUFFICES ASSUME PlayInv, [PlayNext]_playVars PROVE PlayInv'
  OBVIOUS
<1>1. CASE UNCHANGED playVars
  <2>1. HostTypes' /\ QueuedConnected' /\ OpenedFile' /\ SessionTypes'
    BY <1>1
       DEF playVars, session, PlayInv, HostTypes, QueuedConnected, OpenedFile, SessionTypes
  <2>2. ReaderTypes' /\ RequestTypes' /\ SentTypes'
    BY <1>1 DEF playVars, reader, PlayInv, ReaderTypes, RequestTypes, SentTypes
  <2> QED
    BY <2>1, <2>2 DEF PlayInv
<1> QED
  BY <1>1, HostKeeps, ControllerKeeps, LoopKeeps DEF PlayNext

(* Playback keeps its types, and while the session says that a file is     *)
(* open the shared handle is on it, whatever overlaps (play_session.cpp).  *)
THEOREM PlayTypes == PlaySpec => [](PlayTypeOK /\ OpenedHasHandle)
BY PlayStarts, PlayStep, PlayInvFacts, PTL DEF PlaySpec

-----------------------------------------------------------------------------
(* The lines ls are the ones of file f after line i.                       *)
Follow(f, i, ls, n) == \A k \in 1..n : ls[k] = <<f, i + k>>

(* The handle stands where the session counts, or at the end of the file.  *)
InStep ==
    opened /\ ~handle.broken =>
        \/ handle.pos = LineNow
        \/ handle.pos = Lines[handle.file] /\ LineNow > handle.pos
SeenBehind == seen <= generation

(* What is retained for this session is as labelled, and so is what the    *)
(* data loop has read so far.                                              *)
RetainedTrue ==
    opened /\ seen = generation =>
        /\ retained.count <= Len(retained.lines)
        /\ Follow(path, retained.index, retained.lines, retained.count)
ReadSoFar ==
    request # NoRequest =>
        /\ opened /\ seen = generation /\ request.file = path
        /\ Follow(path, request.index, request.lines, Len(request.lines))
        /\ ~handle.broken => line = request.index + Len(request.lines)

FaithfulInv == InStep /\ SeenBehind /\ RetainedTrue /\ ReadSoFar /\ LabelledData

(* Frames other than data are not about lines.                             *)
LEMMA NoData ==
    ASSUME sent' = <<>> \/ \E k \in {"start", "progress", "complete", "error"} : sent' = <<Frame(k)>>
    PROVE  LabelledData'
<1>1. CASE sent' = <<>>
  BY <1>1 DEF LabelledData
<1>2. ASSUME NEW k \in {"start", "progress", "complete", "error"}, sent' = <<Frame(k)>>
      PROVE  LabelledData'
  BY <1>2 DEF LabelledData, Frame
<1> QED
  BY <1>1, <1>2

(* A data frame whose lines follow its label.                              *)
LEMMA GoodData ==
    ASSUME NEW f, NEW i, NEW n, NEW ls, Follow(f, i, ls, n),
           \/ sent' = <<Data(f, i, n, ls)>>
           \/ sent' = Append(<<Data(f, i, n, ls)>>, Frame("complete"))
    PROVE  LabelledData'
<1>1. CASE sent' = <<Data(f, i, n, ls)>>
  BY <1>1 DEF LabelledData, Data, Follow
<1>2. CASE sent' = Append(<<Data(f, i, n, ls)>>, Frame("complete"))
  <2> DEFINE one == <<Data(f, i, n, ls)>>
  <2>1. one \in Seq({Data(f, i, n, ls)}) /\ Len(one) = 1 /\ one[1] = Data(f, i, n, ls)
    OBVIOUS
  <2> HIDE DEF one
  <2>2. /\ DOMAIN sent' = 1..2 /\ sent'[1] = Data(f, i, n, ls)
        /\ sent'[2] = Frame("complete")
    BY <1>2, <2>1 DEF one
  <2>3. sent'[1] = Data(f, i, n, ls) /\ sent'[2].kind # "data"
    BY <2>2 DEF Frame
  <2>4. sent'[1].count = n /\ sent'[1].lines = ls /\ sent'[1].file = f /\ sent'[1].index = i
    BY <2>3 DEF Data
  <2>5. ASSUME NEW k \in DOMAIN sent', sent'[k].kind = "data" PROVE k = 1
    BY <2>2, <2>3, <2>5
  <2> QED
    BY <2>4, <2>5 DEF LabelledData, Follow
<1> QED
  BY <1>1, <1>2

(* What is counted and retained after the comparison of generations.       *)
LEMMA AfterReceive ==
    ASSUME PlayInv, FaithfulInv, NEW id \in Files \union {NoFile}, Receive(id),
           UNCHANGED generation
    PROVE  /\ SeenBehind' /\ seen' = generation'
           /\ line' = LineNow => LineNow' = LineNow
           /\ LineNow' = line'
           /\ opened => /\ RetainedNow.count <= Len(RetainedNow.lines)
                        /\ Follow(path, RetainedNow.index, RetainedNow.lines, RetainedNow.count)
<1>1. seen' = generation'
  BY DEF Receive
<1>2. SeenBehind'
  BY <1>1 DEF SeenBehind, PlayInv, SessionTypes
<1>3. LineNow' = line'
  BY <1>1 DEF LineNow
<1>4. ASSUME opened
      PROVE  /\ RetainedNow.count <= Len(RetainedNow.lines)
             /\ Follow(path, RetainedNow.index, RetainedNow.lines, RetainedNow.count)
  <2>1. CASE seen = generation
    BY <1>4, <2>1 DEF RetainedNow, FaithfulInv, RetainedTrue
  <2>2. CASE seen # generation
    BY <2>2 DEF RetainedNow, NoRetained, Follow
  <2> QED
    BY <2>1, <2>2
<1> QED
  BY <1>1, <1>2, <1>3, <1>4

(* Hosts change the session only between two frames.                       *)
LEMMA HostFaithful ==
    ASSUME ~Overlap, PlayInv, FaithfulInv, NEW h \in Hosts, Host(h)
    PROVE  FaithfulInv'
<1> USE DEF FaithfulInv
<1>1. CASE UNCHANGED <<session, handle, reader, request, sent>>
  BY <1>1
     DEF session, reader, InStep, SeenBehind, RetainedTrue, ReadSoFar, LabelledData, LineNow
<1>2. CASE Prepare(h)
  <2>1. /\ request = NoRequest /\ generation' = generation + 1 /\ opened' = TRUE
        /\ handle' = [file |-> queued[h], pos |-> 0, broken |-> FALSE]
        /\ UNCHANGED <<seen, line, retained, residual, request, sent>>
    BY <1>2 DEF Prepare, reader
  <2>2. generation \in Nat /\ seen \in Nat /\ seen <= generation
    BY BoundsAssumption DEF PlayInv, SessionTypes, ReaderTypes, SeenBehind
  <2>3. seen' # generation' /\ SeenBehind'
    BY <2>1, <2>2 DEF SeenBehind
  <2>4. InStep'
    BY <2>1, <2>3 DEF InStep, LineNow
  <2>5. RetainedTrue' /\ ReadSoFar' /\ LabelledData'
    BY <2>1, <2>3 DEF RetainedTrue, ReadSoFar, LabelledData
  <2> QED
    BY <2>3, <2>4, <2>5
<1>3. CASE PrepareFails(h)
  <2>1. /\ request = NoRequest /\ opened' \in {opened, FALSE}
        /\ UNCHANGED <<path, generation, handle, seen, line, retained, residual, request, sent>>
    BY <1>3 DEF PrepareFails, reader
  <2>2. opened' => opened
    BY <2>1 DEF PlayInv, SessionTypes
  <2> QED
    BY <2>1, <2>2 DEF InStep, SeenBehind, RetainedTrue, ReadSoFar, LabelledData, LineNow
<1> QED
  BY <1>1, <1>2, <1>3 DEF Host, Connect, Disconnect, ReceivePlay, PlayRefused

(* The controller's frames label what they carry.                          *)
LEMMA ControllerFaithful ==
    ASSUME PlayInv, FaithfulInv, NEW id \in Files \union {NoFile}, Controller(id)
    PROVE  FaithfulInv'
<1>0. ASSUME Receive(id), request' = NoRequest PROVE ReadSoFar'
  BY <1>0 DEF ReadSoFar
<1>1. CASE HandleTerminal(id)
  <2>1. Receive(id) /\ opened' = FALSE /\ UNCHANGED <<generation, request>> /\ sent' = <<>>
    BY <1>1 DEF HandleTerminal, handle_terminal
  <2>2. request' = NoRequest
    BY <2>1, ReceiveFacts
  <2> QED
    BY <1>0, <2>1, <2>2, AfterReceive, NoData DEF FaithfulInv, InStep, RetainedTrue
<1>2. CASE HandleStart(id)
  <2>1. /\ Receive(id) /\ line' = LineNow /\ retained' = NoRetained
        /\ UNCHANGED <<opened, path, generation, handle, request>>
    BY <1>2 DEF HandleStart, session
  <2>2. request' = NoRequest /\ LineNow' = LineNow /\ SeenBehind'
    BY <2>1, ReceiveFacts, AfterReceive
  <2>3. LabelledData'
    BY <1>2, NoData DEF HandleStart
  <2>4. InStep'
    BY <2>1, <2>2 DEF FaithfulInv, InStep
  <2>5. RetainedTrue'
    BY <2>1 DEF RetainedTrue, NoRetained, Follow
  <2> QED
    BY <1>0, <2>1, <2>2, <2>3, <2>4, <2>5 DEF FaithfulInv
<1>3. CASE HandleRefused(id)
  <2>1. /\ Receive(id) /\ line' = LineNow /\ retained' = RetainedNow
        /\ UNCHANGED <<opened, path, generation, handle, request>>
    BY <1>3 DEF HandleRefused, session
  <2>2. request' = NoRequest /\ LineNow' = LineNow /\ SeenBehind'
    BY <2>1, ReceiveFacts, AfterReceive
  <2>3. LabelledData'
    BY <1>3, NoData DEF HandleRefused
  <2>4. InStep'
    BY <2>1, <2>2 DEF FaithfulInv, InStep
  <2>5. RetainedTrue'
    BY <2>1, AfterReceive DEF RetainedTrue, Follow
  <2> QED
    BY <1>0, <2>1, <2>2, <2>3, <2>4, <2>5 DEF FaithfulInv
<1>4. ASSUME NEW i \in 0..MaxIndex, HandleGoto(id, i) PROVE FaithfulInv'
  <2>1. /\ Receive(id) /\ opened /\ UNCHANGED <<opened, path, generation, request>>
        /\ retained' \in {NoRetained, RetainedNow}
    BY <1>4 DEF HandleGoto, Valid, session
  <2>2. request' = NoRequest /\ LineNow' = line' /\ SeenBehind'
    BY <2>1, ReceiveFacts, AfterReceive
  <2>3. LabelledData'
    BY <1>4, NoData DEF HandleGoto
  <2>4. handle'.pos = line'
    BY <1>4 DEF HandleGoto, PlayInv, SessionTypes
  <2>5. InStep'
    BY <2>2, <2>4 DEF InStep
  <2>6. RetainedTrue'
    BY <2>1, AfterReceive DEF RetainedTrue, Follow, NoRetained
  <2> QED
    BY <1>0, <2>1, <2>2, <2>3, <2>5, <2>6 DEF FaithfulInv
<1>5. ASSUME NEW i \in 0..MaxIndex, HandleRetained(id, i) PROVE FaithfulInv'
  <2>1. /\ Receive(id) /\ line' = LineNow /\ retained' = RetainedNow /\ opened
        /\ UNCHANGED <<opened, path, generation, handle, request>>
        /\ sent' = <<Data(path, i, retained.count, retained.lines)>> /\ IsRetained(i)
    BY <1>5 DEF HandleRetained, Valid, session
  <2>2. request' = NoRequest /\ LineNow' = LineNow /\ SeenBehind'
    BY <2>1, ReceiveFacts, AfterReceive
  <2>3. seen = generation /\ retained.index = i
    BY <2>1 DEF IsRetained, RetainedNow, NoRetained
  <2>4. Follow(path, i, retained.lines, retained.count)
    BY <2>1, <2>3 DEF FaithfulInv, RetainedTrue
  <2>5. LabelledData'
    BY <2>1, <2>4, GoodData
  <2>6. InStep'
    BY <2>1, <2>2 DEF FaithfulInv, InStep
  <2>7. RetainedTrue'
    BY <2>1, AfterReceive DEF RetainedTrue, Follow
  <2> QED
    BY <1>0, <2>1, <2>2, <2>5, <2>6, <2>7 DEF FaithfulInv
<1>6. ASSUME NEW i \in 0..MaxIndex, NEW n \in 1..MaxLines, HandlePlayData(id, i, n)
      PROVE  FaithfulInv'
  <2>1. /\ Receive(id) /\ retained' = RetainedNow /\ opened /\ sent' = <<>> /\ i \in Nat
        /\ request' = [file |-> path, index |-> i, left |-> n, lines |-> <<>>]
        /\ UNCHANGED <<opened, path, generation>>
    BY <1>6 DEF HandlePlayData, Valid, session
  <2>2. LineNow' = line' /\ SeenBehind' /\ seen' = generation'
    BY <2>1, AfterReceive
  <2>3. /\ line' = i
        /\ (handle' = handle /\ i = LineNow) \/ handle' \in Scanned(i)
    BY <1>6 DEF HandlePlayData, seek_line
  <2>4. InStep'
    <3>1. CASE handle' = handle /\ i = LineNow
      BY <2>1, <2>2, <2>3, <3>1 DEF FaithfulInv, InStep
    <3>2. CASE handle' \in Scanned(i)
      <4>1. /\ handle'.file = handle.file
            /\ ~handle'.broken => \/ handle'.pos = i /\ i <= Lines[handle.file]
                                  \/ handle'.pos = Lines[handle.file] /\ i > Lines[handle.file]
        BY <2>1, <3>2, ScanFacts DEF PlayInv
      <4> QED
        BY <2>2, <2>3, <4>1 DEF InStep
    <3> QED
      BY <2>3, <3>1, <3>2
  <2>5. RetainedTrue'
    BY <2>1, AfterReceive DEF RetainedTrue, Follow
  <2>6. ReadSoFar'
    BY <2>1, <2>2, <2>3 DEF ReadSoFar, Follow
  <2> QED
    BY <2>1, <2>2, <2>4, <2>5, <2>6, NoData DEF FaithfulInv
<1> QED
  BY <1>1, <1>2, <1>3, <1>4, <1>5, <1>6 DEF Controller

(* A data loop that ends labels the lines it has read.                     *)
LEMMA FinishFaithful ==
    ASSUME PlayInv, FaithfulInv, NEW ls \in Seq(Line), NEW eof \in BOOLEAN,
           request # NoRequest, FinishData(ls, eof), UNCHANGED seen,
           Follow(path, request.index, ls, Len(ls)),
           ~eof => InStep'
    PROVE  FaithfulInv'
<1> DEFINE data == IF ls = <<>> THEN <<>>
                   ELSE <<Data(request.file, request.index, Len(ls), ls)>>
<1>1. /\ opened /\ seen = generation /\ request.file = path /\ request.index \in Nat
      /\ Len(ls) \in Nat
  BY DEF FaithfulInv, ReadSoFar, PlayInv, RequestTypes
<1>2. /\ request' = NoRequest
      /\ sent' = IF eof THEN Append(data, Frame("complete")) ELSE data
      /\ UNCHANGED generation
  BY DEF FinishData, session
<1>3. ReadSoFar' /\ SeenBehind'
  BY <1>2 DEF ReadSoFar, SeenBehind, FaithfulInv
<1>4. LabelledData'
  <2>1. CASE ls = <<>>
    <3>1. sent' = <<>> \/ sent' = <<Frame("complete")>>
      BY <1>2, <2>1
    <3> QED
      BY <3>1, NoData
  <2>2. CASE ls # <<>>
    <3>1. \/ sent' = <<Data(path, request.index, Len(ls), ls)>>
          \/ sent' = Append(<<Data(path, request.index, Len(ls), ls)>>, Frame("complete"))
      BY <1>1, <1>2, <2>2
    <3> QED
      BY <3>1, GoodData
  <2> QED
    BY <2>1, <2>2
<1>5. CASE eof
  <2>1. opened' = FALSE
    BY <1>5 DEF FinishData, handle_terminal
  <2> QED
    BY <1>3, <1>4, <2>1 DEF FaithfulInv, InStep, RetainedTrue
<1>6. CASE ~eof
  <2>1. retained' = retain_response(request.index, ls) /\ UNCHANGED <<opened, path>>
    BY <1>6 DEF FinishData, session
  <2>2. /\ retained'.index = request.index /\ retained'.count = Len(ls)
        /\ Len(ls) <= Len(retained'.lines)
        /\ \A n \in 1..Len(ls) : retained'.lines[n] = ls[n]
    <3>1. ReaderTypes
      BY DEF PlayInv
    <3>2. /\ Len(ls) <= Len(retain_response(request.index, ls).lines)
          /\ \A n \in 1..Len(ls) : retain_response(request.index, ls).lines[n] = ls[n]
      BY <1>1, <3>1, RetainFacts
    <3>3. /\ retain_response(request.index, ls).index = request.index
          /\ retain_response(request.index, ls).count = Len(ls)
      BY DEF retain_response
    <3> QED
      BY <2>1, <3>2, <3>3
  <2>3. RetainedTrue'
    BY <2>1, <2>2 DEF RetainedTrue, Follow
  <2> QED
    BY <1>3, <1>4, <1>6, <2>3 DEF FaithfulInv
<1> QED
  BY <1>5, <1>6

(* One line more of the data loop follows the ones before it: a read that  *)
(* finds a line stands where the session counts.                           *)
LEMMA NextLine ==
    ASSUME PlayInv, FaithfulInv, request # NoRequest, handle.file # NoFile,
           ~handle.broken, handle.pos < Lines[handle.file],
           NEW ls, ls = Append(request.lines, <<handle.file, handle.pos + 1>>)
    PROVE  /\ handle.pos = line /\ line = request.index + Len(request.lines)
           /\ Len(ls) = Len(request.lines) + 1
           /\ Follow(path, request.index, ls, Len(ls))
<1>1. /\ handle.file \in Files /\ handle.pos \in Nat /\ line \in Nat
      /\ request.lines \in Seq(Line) /\ Len(request.lines) \in Nat /\ request.index \in Nat
  BY DEF PlayInv, SessionTypes, ReaderTypes, RequestTypes
<1>2. /\ opened /\ seen = generation /\ request.file = path
      /\ Follow(path, request.index, request.lines, Len(request.lines))
      /\ line = request.index + Len(request.lines)
  BY DEF FaithfulInv, ReadSoFar
<1>3. handle.file = path
  BY <1>2 DEF PlayInv, OpenedFile
<1>4. handle.pos = line
  BY <1>1, <1>2 DEF FaithfulInv, InStep, LineNow
<1>5. <<handle.file, handle.pos + 1>> \in Line
  BY <1>1 DEF Line
<1>6. /\ Len(ls) = Len(request.lines) + 1
      /\ \A k \in 1..Len(request.lines) : ls[k] = request.lines[k]
      /\ ls[Len(request.lines) + 1] = <<handle.file, handle.pos + 1>>
  BY <1>1, <1>5
<1>7. ASSUME NEW k \in 1..Len(ls) PROVE ls[k] = <<path, request.index + k>>
  <2>1. CASE k \in 1..Len(request.lines)
    BY <1>2, <1>6, <2>1 DEF Follow
  <2>2. CASE k = Len(request.lines) + 1
    <3>1. handle.pos + 1 = request.index + k
      BY <1>1, <1>2, <1>4, <2>2
    <3> QED
      BY <1>3, <1>6, <2>2, <3>1
  <2> QED
    BY <1>1, <1>6, <1>7, <2>1, <2>2
<1> QED
  BY <1>2, <1>4, <1>6, <1>7 DEF Follow

(* The reads of the data loop keep what is read in step with its label.    *)
LEMMA LoopFaithful ==
    ASSUME PlayInv, FaithfulInv, ReadLine \/ ReadEnd \/ ReadFails
    PROVE  FaithfulInv'
<1>1. CASE ReadLine
  <2> DEFINE n == handle.pos + 1
             ls == Append(request.lines, <<handle.file, n>>)
             eof == n = Lines[handle.file] /\ handle.file \in TailEof
  <2>1. /\ request # NoRequest /\ UNCHANGED <<seen, residual>>
        /\ handle.file # NoFile /\ ~handle.broken /\ handle.pos < Lines[handle.file]
    BY <1>1 DEF ReadLine, Idle
  <2>2. /\ handle.file \in Files /\ n \in Nat /\ ls \in Seq(Line)
        /\ [handle EXCEPT !.pos = n]
              = [file |-> handle.file, pos |-> n, broken |-> handle.broken]
    BY <2>1, ReadFactsOfLine
  <2>3. IF eof THEN FinishData(ls, TRUE)
        ELSE /\ handle' = [handle EXCEPT !.pos = n] /\ line' = line + 1
             /\ IF request.left = 1 THEN FinishData(ls, FALSE)
                ELSE /\ request' = [request EXCEPT !.left = @ - 1, !.lines = ls]
                     /\ UNCHANGED <<owner, preparer, session, running, retained, sent>>
    BY <1>1 DEF ReadLine
  <2>4. /\ handle.pos = line /\ line = request.index + Len(request.lines)
        /\ Len(ls) = Len(request.lines) + 1
        /\ Follow(path, request.index, ls, Len(ls))
    BY <2>1, NextLine
  <2>5. n = line + 1
    BY <2>4
  <2> HIDE DEF n, ls, eof
  <2>6. opened /\ seen = generation /\ request.file = path
    BY <2>1 DEF FaithfulInv, ReadSoFar
  <2>7. CASE eof
    BY <2>1, <2>2, <2>3, <2>4, <2>7, FinishFaithful
  <2>8. CASE ~eof
    <3>1. handle' = [file |-> handle.file, pos |-> n, broken |-> handle.broken] /\ line' = n
      BY <2>2, <2>3, <2>5, <2>8
    <3>2. UNCHANGED generation
      BY <2>3, <2>8 DEF FinishData, session
    <3>3. InStep'
      BY <2>1, <2>6, <3>1, <3>2 DEF InStep, LineNow
    <3>4. CASE request.left = 1
      BY <2>1, <2>2, <2>3, <2>4, <2>8, <3>3, <3>4, FinishFaithful
    <3>5. CASE request.left # 1
      <4>1. /\ request' = [request EXCEPT !.left = @ - 1, !.lines = ls]
            /\ UNCHANGED <<opened, path, generation, retained, sent, seen>>
        BY <2>1, <2>3, <2>8, <3>5 DEF session
      <4>2. request' = [file |-> request.file, index |-> request.index,
                        left |-> request.left - 1, lines |-> ls]
        BY <4>1 DEF PlayInv, RequestTypes
      <4>3. /\ request'.file = request.file /\ request'.index = request.index
            /\ request'.lines = ls
        BY <4>2
      <4>4. line' = request'.index + Len(request'.lines)
        <5>1. line \in Nat /\ request.index \in Nat /\ Len(request.lines) \in Nat
          BY DEF PlayInv, ReaderTypes, RequestTypes
        <5> QED
          BY <2>4, <2>5, <3>1, <4>3, <5>1
      <4>5. Follow(path', request'.index, request'.lines, Len(request'.lines))
        BY <2>4, <4>1, <4>3 DEF Follow
      <4>6. ReadSoFar'
        BY <2>6, <4>1, <4>3, <4>4, <4>5 DEF ReadSoFar
      <4>7. SeenBehind' /\ RetainedTrue' /\ LabelledData'
        BY <4>1 DEF FaithfulInv, SeenBehind, RetainedTrue, LabelledData
      <4> QED
        BY <3>3, <4>6, <4>7 DEF FaithfulInv
    <3> QED
      BY <3>4, <3>5
  <2> QED
    BY <2>7, <2>8
<1>2. CASE ReadEnd
  <2>1. request.lines \in Seq(Line) /\ request # NoRequest /\ UNCHANGED seen
        /\ FinishData(request.lines, TRUE)
    BY <1>2 DEF ReadEnd, Idle, PlayInv, RequestTypes
  <2>2. Follow(path, request.index, request.lines, Len(request.lines))
    BY <2>1 DEF FaithfulInv, ReadSoFar
  <2> QED
    BY <2>1, <2>2, FinishFaithful
<1>3. CASE ReadFails
  <2>1. /\ request' = NoRequest /\ sent' = <<Frame("complete")>> /\ request # NoRequest
        /\ UNCHANGED <<opened, path, generation, seen, line, retained>>
        /\ handle' = IF handle.file = NoFile THEN handle ELSE [handle EXCEPT !.broken = TRUE]
    BY <1>3 DEF ReadFails, session, reader, Idle
  <2>2. LabelledData'
    BY <2>1, NoData
  <2>3. handle.file \in Files /\ NoFile \notin Files
    BY <2>1, FilesAssumption DEF FaithfulInv, ReadSoFar, PlayInv, OpenedFile
  <2>4. handle'.broken
    BY <2>1, <2>3 DEF PlayInv, SessionTypes
  <2>5. InStep'
    BY <2>4 DEF InStep
  <2>6. SeenBehind' /\ RetainedTrue' /\ ReadSoFar'
    BY <2>1 DEF FaithfulInv, SeenBehind, RetainedTrue, ReadSoFar
  <2> QED
    BY <2>2, <2>5, <2>6 DEF FaithfulInv
<1> QED
  BY <1>1, <1>2, <1>3

(* Every step keeps both invariants, unless preparations overlap requests. *)
LEMMA FaithfulStep ==
    ASSUME ~Overlap, PlayInv, FaithfulInv, [PlayNext]_playVars
    PROVE  FaithfulInv'
<1>1. CASE UNCHANGED playVars
  <2>1. UNCHANGED <<opened, path, generation, handle, seen, line, retained, request, sent>>
    BY <1>1 DEF playVars, session, reader
  <2> QED
    BY <2>1
       DEF FaithfulInv, InStep, SeenBehind, RetainedTrue, ReadSoFar, LabelledData, LineNow
<1> QED
  BY <1>1, HostFaithful, ControllerFaithful, LoopFaithful DEF PlayNext

(* Nothing is open, read or sent at the start.                             *)
LEMMA FaithfulStarts == PlayInit => FaithfulInv
BY DEF PlayInit, FaithfulInv, InStep, SeenBehind, RetainedTrue, ReadSoFar, LabelledData

(* What the controller machines is what the label says, for every program  *)
(* and every order of requests, repeats, jumps, failures and replacements, *)
(* as long as no preparation runs between two reads of one data request    *)
(* (nothing in the firmware forbids that, and TLC refutes it with Overlap).*)
THEOREM PlaybackIsFaithful ==
    ASSUME ~Overlap
    PROVE  PlaySpec => []PlayIsFaithful
<1>1. PlayInv /\ FaithfulInv /\ [PlayNext]_playVars => (PlayInv /\ FaithfulInv)'
  BY PlayStep, FaithfulStep
<1>2. PlayInit => PlayInv /\ FaithfulInv
  BY PlayStarts, FaithfulStarts
<1>3. PlayInv /\ FaithfulInv => PlayIsFaithful
  BY PlayInvFacts DEF FaithfulInv, PlayIsFaithful
<1> QED
  BY <1>1, <1>2, <1>3, PTL DEF PlaySpec

-----------------------------------------------------------------------------
(* The owner of playback is the connection that prepared it, and it has no *)
(* play command waiting when a host does not repeat one it owns.           *)
OwnerPrepared ==
    owner = preparer /\ (owner # NoHost => queued[owner] = NoFile)

(* Ownership and preparation go together.                                  *)
LEMMA OwnerStep ==
    ASSUME ~RepeatedPlay, PlayInv, OwnerPrepared, [PlayNext]_playVars
    PROVE  OwnerPrepared'
<1>0. /\ queued \in [Hosts -> Files \union {NoFile}] /\ owner \in Hosts \union {NoHost}
      /\ NoHost \notin Hosts /\ NoFile \notin Files
  BY HostsAssumption, FilesAssumption DEF PlayInv, HostTypes
<1>1. CASE UNCHANGED <<queued, owner, preparer>>
  BY <1>1 DEF OwnerPrepared
<1>2. CASE handle_terminal /\ UNCHANGED queued
  BY <1>2 DEF handle_terminal, OwnerPrepared
<1>3. ASSUME NEW h \in Hosts, Host(h) PROVE OwnerPrepared'
  <2>1. CASE Disconnect(h)
    BY <1>0, <2>1 DEF Disconnect, OwnerPrepared
  <2>2. ASSUME NEW f \in Files, ReceivePlay(h, f) PROVE OwnerPrepared'
    BY <1>0, <2>2 DEF ReceivePlay, OwnerPrepared
  <2>3. CASE PlayRefused(h)
    BY <1>0, <2>3 DEF PlayRefused, OwnerPrepared
  <2>4. CASE Prepare(h)
    BY <1>0, <2>4 DEF Prepare, OwnerPrepared
  <2>5. CASE PrepareFails(h)
    BY <1>0, <2>5 DEF PrepareFails, may_claim_play, OwnerPrepared
  <2>6. CASE Connect(h)
    BY <1>1, <2>6 DEF Connect
  <2> QED
    BY <1>3, <2>1, <2>2, <2>3, <2>4, <2>5, <2>6 DEF Host
<1>4. ASSUME NEW id \in Files \union {NoFile}, Controller(id) PROVE OwnerPrepared'
  <2>1. UNCHANGED queued
    BY <1>4
       DEF Controller, HandleTerminal, HandleStart, HandleRefused, HandleGoto, HandleRetained,
           HandlePlayData, Receive
  <2>2. handle_terminal \/ UNCHANGED <<owner, preparer>>
    BY <1>4
       DEF Controller, HandleTerminal, HandleStart, HandleRefused, HandleGoto, HandleRetained,
           HandlePlayData
  <2> QED
    BY <1>1, <1>2, <2>1, <2>2
<1>5. CASE ReadLine \/ ReadEnd \/ ReadFails
  <2>1. UNCHANGED queued /\ (handle_terminal \/ UNCHANGED <<owner, preparer>>)
    BY <1>5 DEF ReadLine, ReadEnd, ReadFails, FinishData
  <2> QED
    BY <1>1, <1>2, <2>1
<1>6. CASE UNCHANGED playVars
  BY <1>1, <1>6 DEF playVars
<1> QED
  BY <1>3, <1>4, <1>5, <1>6 DEF PlayNext

(* Only a preparation starts a new generation, and only the owner prepares.*)
LEMMA KeptStep ==
    ASSUME OwnerPrepared, [PlayNext]_playVars, running, preparer # NoHost,
           generation' # generation
    PROVE  preparer' = preparer
<1>1. \E h \in Hosts : Prepare(h)
  <2>1. ASSUME NEW h \in Hosts, Host(h) PROVE Prepare(h)
    BY <2>1 DEF Host, Connect, Disconnect, ReceivePlay, PlayRefused, PrepareFails, session
  <2>2. ASSUME NEW id \in Files \union {NoFile}, Controller(id) PROVE FALSE
    BY <2>2
       DEF Controller, HandleTerminal, HandleStart, HandleRefused, HandleGoto, HandleRetained,
           HandlePlayData, session
  <2>3. CASE ReadLine \/ ReadEnd \/ ReadFails
    BY <2>3 DEF ReadLine, ReadEnd, ReadFails, FinishData, session
  <2>4. CASE UNCHANGED playVars
    BY <2>4 DEF playVars, session
  <2> QED
    BY <2>1, <2>2, <2>3, <2>4 DEF PlayNext
<1> QED
  BY <1>1 DEF Prepare, may_claim_play, OwnerPrepared

(* A play that runs is not replaced by another connection while its own    *)
(* one is there, provided that no host sends play again while it owns one  *)
(* (a repeated play whose preparation fails gives the ownership up).       *)
THEOREM PlayKeepsItsOwner ==
    ASSUME ~RepeatedPlay
    PROVE  PlaySpec => RunningPlayIsKept
<1>1. PlayInv /\ OwnerPrepared /\ [PlayNext]_playVars => (PlayInv /\ OwnerPrepared)'
  BY PlayStep, OwnerStep
<1>2. PlayInit => PlayInv /\ OwnerPrepared
  BY PlayStarts DEF PlayInit, OwnerPrepared
<1>3. OwnerPrepared /\ [PlayNext]_playVars
        => [running /\ preparer # NoHost /\ generation' # generation
              => preparer' = preparer]_playVars
  BY KeptStep
<1> QED
  BY <1>1, <1>2, <1>3, PTL DEF PlaySpec, RunningPlayIsKept

-----------------------------------------------------------------------------
(* The line reader.  Every set of numbers has a least one.                  *)
LEMMA HasLeast ==
    ASSUME NEW T \in SUBSET Nat, T # {}
    PROVE  Min(T) \in T /\ \A m \in T : Min(T) <= m
<1>1. IsWellFoundedOn(OpToRel(<, Nat), Nat)
  BY NatLessThanWellFounded
<1>2. PICK n \in T : \A m \in T : ~(<<m, n>> \in OpToRel(<, Nat))
  BY <1>1, WFMin
<1>3. \A x, y \in Nat : <<y, x>> \in OpToRel(<, Nat) <=> y < x
  BY DEF OpToRel
<1>4. \A m \in T : n <= m
  <2> SUFFICES ASSUME NEW m \in T PROVE n <= m
    OBVIOUS
  <2>1. m \in Nat /\ n \in Nat
    OBVIOUS
  <2>2. ~(m < n)
    BY <1>2, <1>3, <2>1, Zenon
  <2> QED
    BY <2>1, <2>2
<1> QED
  BY <1>4 DEF Min

(* Find gives the first place of a byte.                                    *)
LEMMA FindFacts ==
    ASSUME NEW s \in Seq(Alphabet), NEW b
    PROVE  /\ Find(s, b) \in 0..Len(s)
           /\ \A i \in 1..Len(s) : s[i] = b => Find(s, b) \in 1..i
           /\ Find(s, b) # 0 => s[Find(s, b)] = b
<1> DEFINE places == {i \in 1..Len(s) : s[i] = b}
<1>1. Find(s, b) = IF places # {} THEN Min(places) ELSE 0
  BY DEF Find, SelectInSeq
<1>2. CASE places = {}
  BY <1>1, <1>2
<1>3. CASE places # {}
  <2>1. places \in SUBSET Nat
    OBVIOUS
  <2>2. Min(places) \in places /\ \A m \in places : Min(places) <= m
    BY <1>3, <2>1, HasLeast
  <2>3. Find(s, b) = Min(places)
    BY <1>1, <1>3
  <2>4. Find(s, b) \in places /\ \A m \in places : Find(s, b) <= m
    BY <2>2, <2>3, Zenon
  <2>5. Find(s, b) \in 1..Len(s) /\ s[Find(s, b)] = b
    BY <2>4
  <2>6. \A i \in 1..Len(s) : s[i] = b => Find(s, b) <= i
    BY <2>4
  <2> QED
    BY <2>5, <2>6
<1> QED
  BY <1>2, <1>3

(* A chunk is what the file has next.                                       *)
LEMMA ChunkFacts ==
    ASSUME ReaderTypeOK
    PROVE  read_chunk \in Seq(Alphabet) /\ pos + Len(read_chunk) \in 0..Len(file)
<1> DEFINE limit == IF Len(Ahead) < ChunkSize THEN Len(Ahead) ELSE ChunkSize
           bytes == SubSeq(Ahead, 1, limit)
<1>1. Ahead \in Seq(Alphabet) /\ Len(Ahead) = Len(file) - pos
  BY DEF Ahead, ReaderTypeOK
<1>2. limit \in 0..Len(Ahead)
  BY <1>1, ReaderSizesAssumption
<1>3. bytes \in Seq(Alphabet) /\ Len(bytes) = limit
  <2> HIDE DEF limit
  <2> QED
    BY <1>1, <1>2
<1>4. Find(bytes, "LF") \in 0..Len(bytes)
  <2> HIDE DEF bytes
  <2> QED
    BY <1>3, FindFacts
<1>5. read_chunk = bytes \/ read_chunk = SubSeq(bytes, 1, Find(bytes, "LF"))
  BY DEF read_chunk
<1> HIDE DEF bytes, limit
<1>6. read_chunk \in Seq(Alphabet) /\ Len(read_chunk) \in 0..Len(bytes)
  BY <1>3, <1>4, <1>5
<1> QED
  BY <1>1, <1>2, <1>3, <1>6 DEF ReaderTypeOK

(* What the controller can take.                                            *)
Takes(l) == l \in Seq(Alphabet) /\ Len(l) <= LineSize /\ \A i \in 1..Len(l) : l[i] # "NUL"

(* A line that is cut where the NUL is and at the controller's limit.       *)
LEMMA LimitedFacts ==
    ASSUME NEW c \in Seq(Alphabet)
    PROVE  Takes(limited(observed_bytes(c)))
<1> DEFINE shown == observed_bytes(c)
<1>1. shown \in Seq(Alphabet) /\ \A i \in 1..Len(shown) : shown[i] # "NUL"
  <2>1. /\ Find(c, "NUL") \in 0..Len(c)
        /\ \A i \in 1..Len(c) : c[i] = "NUL" => Find(c, "NUL") \in 1..i
    BY FindFacts
  <2>2. CASE Find(c, "NUL") = 0
    BY <2>1, <2>2 DEF observed_bytes
  <2>3. CASE Find(c, "NUL") # 0
    <3>1. shown = SubSeq(c, 1, Find(c, "NUL") - 1)
      BY <2>3 DEF observed_bytes
    <3>2. /\ Len(shown) = Find(c, "NUL") - 1
          /\ \A i \in 1..Len(shown) : shown[i] = c[i] /\ i < Find(c, "NUL")
      BY <2>1, <2>3, <3>1
    <3>3. shown \in Seq(Alphabet)
      BY <2>1, <2>3, <3>1
    <3> HIDE DEF shown
    <3> QED
      BY <2>1, <3>2, <3>3
  <2> QED
    BY <2>2, <2>3
<1> HIDE DEF shown
<1>2. CASE Len(shown) > LineSize
  <2> DEFINE cut == SubSeq(shown, 1, LineSize - 1)
  <2>1. cut \in Seq(Alphabet) /\ Len(cut) = LineSize - 1 /\ \A i \in 1..LineSize - 1 : cut[i] = shown[i]
    BY <1>1, <1>2, ReaderSizesAssumption
  <2>2. limited(shown) = Append(cut, "LF")
    BY <1>2 DEF limited
  <2> HIDE DEF cut
  <2>3. /\ limited(shown) \in Seq(Alphabet) /\ Len(limited(shown)) = LineSize
        /\ \A i \in 1..LineSize : limited(shown)[i] = IF i = LineSize THEN "LF" ELSE shown[i]
    BY <2>1, <2>2, ReaderSizesAssumption, SourceAssumption
  <2> QED
    BY <1>1, <1>2, <2>3, ReaderSizesAssumption DEF Takes, shown
<1>3. CASE ~(Len(shown) > LineSize)
  BY <1>1, <1>3, ReaderSizesAssumption DEF limited, Takes, shown
<1> QED
  BY <1>2, <1>3

(* The reader's variables, and every line it has returned.                  *)
ReaderInv ==
    /\ source \in Sources
    /\ file \in Seq(Alphabet) /\ Len(file) <= MaxLength
    /\ pos \in 0..Len(file)
    /\ phase \in {"first", "more", "end", "failed"}
    /\ out \in Seq(Seq(Alphabet))
    /\ \A k \in 1..Len(out) : Takes(out[k])

LEMMA ReturnKeeps ==
    ASSUME ReaderInv, NEW l, NEW c, Takes(l), Return(l, c)
    PROVE  /\ phase' \in {"first", "more", "end", "failed"}
           /\ out' \in Seq(Seq(Alphabet))
           /\ \A k \in 1..Len(out') : Takes(out'[k])
<1>1. l \in Seq(Alphabet) /\ out' = Append(out, l)
  BY DEF Takes, Return
<1>2. /\ out' \in Seq(Seq(Alphabet)) /\ Len(out') = Len(out) + 1
      /\ \A k \in 1..Len(out') : out'[k] = IF k = Len(out) + 1 THEN l ELSE out[k]
  BY <1>1 DEF ReaderInv
<1>3. \A k \in 1..Len(out') : k = Len(out) + 1 \/ k \in 1..Len(out)
  BY <1>2 DEF ReaderInv
<1>4. \A k \in 1..Len(out') : Takes(out'[k])
  BY <1>2, <1>3 DEF ReaderInv
<1>5. phase' \in {"first", "more", "end", "failed"}
  BY DEF Return
<1> QED
  BY <1>2, <1>4, <1>5

LEMMA ReaderInductive ==
    /\ ReaderInit => ReaderInv
    /\ ReaderInv /\ [ReaderNext]_readerVars => ReaderInv'
<1>1. ASSUME ReaderInit
      PROVE  ReaderInv
  <2>1. PICK n \in 0..MaxLength : file \in [1..n -> Alphabet]
    BY <1>1 DEF ReaderInit, BoundedSeq, SeqOf
  <2>2. file \in Seq(Alphabet) /\ Len(file) <= MaxLength
    BY <2>1, ReaderSizesAssumption
  <2> QED
    BY <1>1, <2>2 DEF ReaderInit, ReaderInv
<1>2. ASSUME ReaderInv, [ReaderNext]_readerVars
      PROVE  ReaderInv'
  <2>0. ReaderTypeOK
    BY <1>2 DEF ReaderInv, ReaderTypeOK
  <2> DEFINE c == read_chunk
  <2>1. c \in Seq(Alphabet) /\ pos + Len(c) \in 0..Len(file)
    BY <2>0, ChunkFacts
  <2>2. CASE ReadFirst
    <3>1. file' = file /\ pos' = pos + Len(c) /\ source' = source
      BY <2>2 DEF ReadFirst
    <3>2. \/ UNCHANGED <<phase, out>>
          \/ Return(limited(observed_bytes(c)), c)
          \/ phase' = "more" /\ out' = out
      BY <2>2 DEF ReadFirst
    <3> HIDE DEF c
    <3>3. Takes(limited(observed_bytes(c)))
      BY <2>1, LimitedFacts
    <3>4. CASE Return(limited(observed_bytes(c)), c)
      BY <1>2, <2>1, <3>1, <3>3, <3>4, ReturnKeeps DEF ReaderInv
    <3>5. CASE UNCHANGED <<phase, out>> \/ (phase' = "more" /\ out' = out)
      BY <1>2, <2>1, <3>1, <3>5 DEF ReaderInv
    <3> QED
      BY <3>2, <3>4, <3>5
  <2>3. CASE ReadMore
    <3>1. file' = file /\ pos' = pos + Len(c) /\ source' = source
      BY <2>3 DEF ReadMore
    <3>2. UNCHANGED <<phase, out>> \/ Return(<<"LF">>, c)
      BY <2>3 DEF ReadMore
    <3> HIDE DEF c
    <3>3. Takes(<<"LF">>)
      BY ReaderSizesAssumption, SourceAssumption DEF Takes
    <3>4. CASE Return(<<"LF">>, c)
      BY <1>2, <2>1, <3>1, <3>3, <3>4, ReturnKeeps DEF ReaderInv
    <3>5. CASE UNCHANGED <<phase, out>>
      BY <1>2, <2>1, <3>1, <3>5 DEF ReaderInv
    <3> QED
      BY <3>2, <3>4, <3>5
  <2>4. CASE ReadAtEnd \/ ReadBroken
    BY <1>2, <2>4 DEF ReaderInv, ReadAtEnd, ReadBroken
  <2>5. CASE UNCHANGED readerVars
    BY <1>2, <2>5 DEF ReaderInv, readerVars
  <2> QED
    BY <1>2, <2>2, <2>3, <2>4, <2>5 DEF ReaderNext
<1> QED
  BY <1>1, <1>2

(* What the reader returns fits the controller's line and holds no NUL      *)
(* (FitsController): for every file over any alphabet, for any length of    *)
(* chunks and lines, and whether the source stops at a line feed or not.    *)
THEOREM LinesFit == ReaderSpec => []FitsController
<1>1. ASSUME ReaderInv
      PROVE  FitsController
  <2>1. \A k \in DOMAIN out : Takes(out[k])
    BY <1>1 DEF ReaderInv
  <2>2. \A k \in DOMAIN out : out[k] \in Seq(Alphabet)
    BY <2>1 DEF Takes
  <2> SUFFICES ASSUME NEW k \in DOMAIN out
               PROVE  Len(out[k]) <= LineSize /\ "NUL" \notin Range(out[k])
    BY DEF FitsController
  <2>3. DOMAIN out[k] = 1..Len(out[k])
    BY <2>2
  <2> QED
    BY <2>1, <2>3 DEF Takes, Range
<1> QED
  BY <1>1, ReaderInductive, PTL DEF ReaderSpec

(* The ends of a file's pieces can be counted.                              *)
LEMMA EndFacts ==
    ASSUME file \in Seq(Alphabet), NEW ends \in SUBSET (1..Len(file))
    PROVE  /\ IsFiniteSet(ends)
           /\ Cardinality(ends) \in Nat
           /\ \A i : /\ IsFiniteSet({j \in ends : j <= i})
                     /\ EndsUpTo(ends, i) \in 0..Cardinality(ends)
           /\ EndsUpTo(ends, 0) = 0 /\ EndsUpTo(ends, Len(file)) = Cardinality(ends)
<1>1. Len(file) \in Nat
  OBVIOUS
<1>2. IsFiniteSet(1..Len(file))
  BY FS_Interval
<1>3. IsFiniteSet(ends) /\ Cardinality(ends) \in Nat
  BY <1>1, <1>2, FS_Subset, FS_CardinalityType
<1>4. ASSUME NEW i
      PROVE  IsFiniteSet({j \in ends : j <= i}) /\ EndsUpTo(ends, i) \in 0..Cardinality(ends)
  <2> DEFINE upto == {j \in ends : j <= i}
  <2>1. upto \in SUBSET ends
    OBVIOUS
  <2> HIDE DEF upto
  <2>2. IsFiniteSet(upto) /\ Cardinality(upto) <= Cardinality(ends) /\ Cardinality(upto) \in Nat
    BY <1>3, <2>1, FS_Subset, FS_CardinalityType
  <2> USE DEF upto
  <2> QED
    BY <1>3, <2>2 DEF EndsUpTo
<1>5. {j \in ends : j <= 0} = {} /\ {j \in ends : j <= Len(file)} = ends
  <2>1. \A j \in ends : j <= Len(file) /\ ~(j <= 0)
    BY <1>1
  <2> QED
    BY <2>1, Zenon
<1> QED
  BY <1>1, <1>3, <1>4, <1>5, FS_EmptySet DEF EndsUpTo

(* An end has more ends up to it than any place before it.                  *)
LEMMA EndsGrow ==
    ASSUME file \in Seq(Alphabet), NEW ends \in SUBSET (1..Len(file)),
           NEW p \in Int, NEW q \in ends, p < q
    PROVE  EndsUpTo(ends, p) < EndsUpTo(ends, q)
<1> DEFINE upto(i) == {j \in ends : j <= i}
<1>1. ends \subseteq 1..Len(file) /\ Len(file) \in Nat /\ Cardinality(ends) \in Nat
  BY EndFacts
<1>2. upto(p) \in SUBSET upto(q) /\ upto(p) # upto(q)
  <2>1. \A j \in ends : j <= p => j <= q
    BY <1>1
  <2>2. ~(q <= p) /\ q <= q
    BY <1>1
  <2>3. q \in upto(q) /\ q \notin upto(p)
    BY <2>2
  <2> QED
    BY <2>1, <2>3, Zenon
<1>3. IsFiniteSet(upto(q)) /\ EndsUpTo(ends, p) \in Nat /\ EndsUpTo(ends, q) \in Nat
  <2>1. \A i : IsFiniteSet({j \in ends : j <= i}) /\ EndsUpTo(ends, i) \in 0..Cardinality(ends)
    BY EndFacts
  <2>2. 0..Cardinality(ends) \subseteq Nat
    BY <1>1
  <2> QED
    BY <2>1, <2>2, Zenon
<1>4. Cardinality(upto(p)) <= Cardinality(upto(q)) /\ Cardinality(upto(p)) # Cardinality(upto(q))
  <2> HIDE DEF upto
  <2> QED
    BY <1>2, <1>3, FS_Subset
<1> QED
  BY <1>3, <1>4 DEF EndsUpTo

(* The k-th end is the one with k ends up to it.                            *)
LEMMA EndsInOrder ==
    ASSUME file \in Seq(Alphabet), NEW ends \in SUBSET (1..Len(file)), NEW q \in ends
    PROVE  /\ EndsUpTo(ends, q) \in DOMAIN InOrder(ends)
           /\ InOrder(ends)[EndsUpTo(ends, q)] = q
<1>1. ends \subseteq 1..Len(file) /\ Cardinality(ends) \in Nat
      /\ EndsUpTo(ends, 0) = 0 /\ EndsUpTo(ends, q) \in 0..Cardinality(ends)
  BY EndFacts
<1>2. EndsUpTo(ends, q) \in 1..Cardinality(ends)
  <2>1. EndsUpTo(ends, 0) < EndsUpTo(ends, q)
    BY <1>1, EndsGrow
  <2> QED
    BY <1>1, <2>1
<1>3. ASSUME NEW i \in ends, EndsUpTo(ends, i) = EndsUpTo(ends, q)
      PROVE  i = q
  <2>1. i \in Int /\ q \in Int /\ EndsUpTo(ends, q) \in Int
    BY <1>1
  <2>2. i < q \/ q < i \/ i = q
    BY <2>1
  <2>3. CASE i < q
    BY <1>3, <2>1, <2>3, EndsGrow
  <2>4. CASE q < i
    BY <1>3, <2>1, <2>4, EndsGrow
  <2> QED
    BY <2>2, <2>3, <2>4
<1>4. (CHOOSE i \in ends : EndsUpTo(ends, i) = EndsUpTo(ends, q)) = q
  BY <1>3
<1> QED
  BY <1>2, <1>4 DEF InOrder

(* From the end of one piece to the next there is the piece that follows.   *)
LEMMA PieceBetween ==
    ASSUME file \in Seq(Alphabet), NEW ends \in SUBSET (1..Len(file)),
           NEW s \in ends \cup {0}, NEW q \in ends, s < q,
           \A j \in ends : ~(s < j /\ j < q)
    PROVE  /\ EndsUpTo(ends, q) = EndsUpTo(ends, s) + 1
           /\ EndsUpTo(ends, q) \in DOMAIN InOrder(ends)
           /\ Piece(ends, EndsUpTo(ends, q)) = SubSeq(file, s + 1, q)
<1> DEFINE upto(i) == {j \in ends : j <= i}
<1>1. ends \subseteq 1..Len(file) /\ Len(file) \in Nat /\ EndsUpTo(ends, 0) = 0
      /\ IsFiniteSet(upto(s)) /\ EndsUpTo(ends, s) \in Nat
  <2>1. Cardinality(ends) \in Nat /\ EndsUpTo(ends, s) \in 0..Cardinality(ends)
    BY EndFacts
  <2>2. EndsUpTo(ends, s) \in Nat
    BY <2>1
  <2> QED
    BY <2>2, EndFacts
<1>2. upto(q) = upto(s) \cup {q} /\ q \notin upto(s)
  <2>1. \A j \in ends : j <= q <=> j <= s \/ j = q
    BY <1>1
  <2>2. ~(q <= s)
    BY <1>1
  <2> QED
    BY <2>1, <2>2, Zenon
<1>3. Cardinality(upto(q)) = Cardinality(upto(s)) + 1
  <2> HIDE DEF upto
  <2> QED
    BY <1>1, <1>2, FS_AddElement
<1>4. EndsUpTo(ends, q) = EndsUpTo(ends, s) + 1
  BY <1>3 DEF EndsUpTo
<1>5. EndsUpTo(ends, q) \in DOMAIN InOrder(ends) /\ InOrder(ends)[EndsUpTo(ends, q)] = q
  BY EndsInOrder
<1>6. CASE s = 0
  <2>1. EndsUpTo(ends, q) = 1
    BY <1>1, <1>4, <1>6
  <2> QED
    BY <1>4, <1>5, <1>6, <2>1 DEF Piece
<1>7. CASE s \in ends
  <2>1. InOrder(ends)[EndsUpTo(ends, s)] = s /\ EndsUpTo(ends, 0) < EndsUpTo(ends, s)
    BY <1>1, <1>7, EndsInOrder, EndsGrow
  <2>2. EndsUpTo(ends, q) # 1 /\ EndsUpTo(ends, q) - 1 = EndsUpTo(ends, s)
    BY <1>1, <1>4, <2>1
  <2> QED
    BY <1>4, <1>5, <2>1, <2>2 DEF Piece
<1> QED
  BY <1>6, <1>7

(* The places where the reader's pieces end.                                *)
LEMMA StretchesWithin ==
    ASSUME file \in Seq(Alphabet)
    PROVE  /\ LineEnds \in SUBSET (1..Len(file)) /\ StretchEnds \in SUBSET (1..Len(file))
           /\ Len(file) # 0 => Len(file) \in LineEnds /\ Len(file) \in StretchEnds
  BY DEF LineEnds, StretchEnds

(* The source gives the file's next bytes, up to the end of the file or the *)
(* limit of a chunk, and one that keeps the interface up to a line feed.    *)
LEMMA ChunkShape ==
    ASSUME ReaderTypeOK
    PROVE  LET c == read_chunk
           IN  /\ Len(c) <= ChunkSize /\ c = SubSeq(file, pos + 1, pos + Len(c))
               /\ \A i \in 1..Len(c) : c[i] = file[pos + i]
               /\ source # "block" => \A i \in 1..Len(c) : c[i] = "LF" => i = Len(c)
               /\ Len(c) < ChunkSize =>
                      \/ pos + Len(c) = Len(file)
                      \/ source # "block" /\ Len(c) # 0 /\ c[Len(c)] = "LF"
<1> DEFINE limit == IF Len(Ahead) < ChunkSize THEN Len(Ahead) ELSE ChunkSize
           bytes == SubSeq(Ahead, 1, limit)
           lf    == Find(bytes, "LF")
           m     == IF source = "block" \/ lf = 0 THEN limit ELSE lf
<1>1. /\ file \in Seq(Alphabet) /\ pos \in 0..Len(file) /\ ChunkSize \in Nat \ {0}
      /\ Ahead \in Seq(Alphabet) /\ Len(Ahead) = Len(file) - pos
      /\ \A i \in 1..Len(Ahead) : Ahead[i] = file[pos + i]
  BY ReaderSizesAssumption DEF Ahead, ReaderTypeOK
<1>2. /\ limit \in 0..Len(Ahead) /\ limit <= ChunkSize
      /\ limit < ChunkSize => pos + limit = Len(file)
  BY <1>1
<1> HIDE DEF limit
<1>3. /\ bytes \in Seq(Alphabet) /\ Len(bytes) = limit
      /\ \A i \in 1..limit : bytes[i] = file[pos + i]
  BY <1>1, <1>2
<1>4. read_chunk = IF source = "block" \/ lf = 0 THEN bytes ELSE SubSeq(bytes, 1, lf)
  BY DEF read_chunk, limit
<1> HIDE DEF bytes
<1>5. /\ lf \in 0..limit
      /\ \A i \in 1..limit : bytes[i] = "LF" => lf \in 1..i
      /\ lf # 0 => bytes[lf] = "LF"
  BY <1>3, FindFacts
<1> HIDE DEF lf
<1>6. /\ m \in 0..limit /\ Len(read_chunk) = m /\ read_chunk \in Seq(Alphabet)
      /\ \A i \in 1..m : read_chunk[i] = file[pos + i] /\ read_chunk[i] = bytes[i]
  BY <1>3, <1>4, <1>5
<1>7. source # "block" => \A i \in 1..m : read_chunk[i] = "LF" => i = m
  BY <1>2, <1>5, <1>6
<1>8. m < ChunkSize =>
          \/ pos + m = Len(file)
          \/ source # "block" /\ m # 0 /\ read_chunk[m] = "LF"
  BY <1>2, <1>5, <1>6
<1>9. read_chunk = SubSeq(file, pos + 1, pos + m)
  <2> HIDE DEF m
  <2> DEFINE part_of == SubSeq(file, pos + 1, pos + m)
  <2>0. file \in Seq(Alphabet) /\ pos \in Nat /\ m \in Nat /\ pos + m <= Len(file)
    BY <1>1, <1>2, <1>6
  <2>1. /\ part_of \in Seq(Alphabet) /\ Len(part_of) = m
        /\ \A i \in 1..m : part_of[i] = file[pos + i]
    BY <2>0
  <2> HIDE DEF part_of
  <2>2. part_of = read_chunk
    BY <1>6, <2>1
  <2> QED
    BY <2>2 DEF part_of
<1> HIDE DEF m
<1>10. m <= ChunkSize /\ m = Len(read_chunk)
  BY <1>1, <1>2, <1>6
<1> QED
  BY <1>6, <1>7, <1>8, <1>9, <1>10, Zenon

(* Multiples of a number, as blocks follow one another.                     *)
LEMMA BlocksFollow ==
    ASSUME NEW i \in Nat, NEW j \in Nat, NEW n \in Nat \ {0}, i % n = 0
    PROVE  (i + n) % n = 0 /\ (j % n = 0 /\ i < j => i + n <= j)
<1>1. /\ i \div n \in Int /\ j \div n \in Int /\ i = n * (i \div n)
      /\ j % n = 0 => j = n * (j \div n)
  BY SMT
<1>2. i + n = ((i \div n) + 1) * n
  BY <1>1, SMT
<1>3. (((i \div n) + 1) * n) % n = 0
  BY <1>1, SMT
<1>4. ASSUME j % n = 0, i < j
      PROVE  i + n <= j
  <2> DEFINE a == i \div n
             b == j \div n
  <2>1. a \in Int /\ b \in Int /\ i = n * a /\ j = n * b
    BY <1>1, <1>4
  <2> HIDE DEF a, b
  <2>2. b >= a + 1
    <3> SUFFICES ASSUME b <= a PROVE FALSE
      BY <2>1
    <3>1. n * b <= n * a
      BY <2>1, SMT
    <3> QED
      BY <1>4, <2>1, <3>1
  <2>3. n * b >= n * (a + 1) /\ n * (a + 1) = n * a + n
    BY <2>1, <2>2, SMT
  <2> QED
    BY <2>1, <2>3
<1> QED
  BY <1>2, <1>3, <1>4

(* Blocks are read from the multiples of their size.                        *)
OnGrid == source = "block" => pos = Len(file) \/ pos % ChunkSize = 0

LEMMA GridKept ==
    ASSUME ReaderInv, OnGrid, pos' = pos + Len(read_chunk), UNCHANGED <<source, file>>
    PROVE  OnGrid'
<1>1. /\ ReaderTypeOK /\ Len(file) \in Nat /\ pos \in 0..Len(file)
      /\ ChunkSize \in Nat \ {0}
  BY ReaderSizesAssumption DEF ReaderTypeOK, ReaderInv
<1>2. /\ Len(read_chunk) \in Nat /\ pos + Len(read_chunk) \in 0..Len(file)
      /\ Len(read_chunk) <= ChunkSize
      /\ source = "block" /\ Len(read_chunk) < ChunkSize =>
             pos + Len(read_chunk) = Len(file)
  BY <1>1, ChunkFacts, ChunkShape
<1>3. CASE source = "block" /\ Len(read_chunk) = ChunkSize
  <2>1. pos % ChunkSize = 0
    BY <1>1, <1>2, <1>3 DEF OnGrid
  <2> QED
    BY <1>1, <1>3, <2>1, BlocksFollow DEF OnGrid
<1> QED
  BY <1>1, <1>2, <1>3 DEF OnGrid

(* Of a text file, the pieces returned are the file's first ones; a piece   *)
(* is read from the end of the one before it, and what is read of a long    *)
(* one is more than a chunk and holds no line feed.                         *)
Stops == StretchEnds \cup {0}
FirstLines ==
    /\ Len(out) <= Cardinality(StretchEnds)
    /\ \A k \in 1..Len(out) : out[k] = Wanted(StretchEnds)[k]
ReadUpToNow ==
    /\ phase = "first" => pos \in Stops /\ EndsUpTo(StretchEnds, pos) = Len(out)
    /\ phase = "more" =>
           \E s \in Stops : /\ s + ChunkSize <= pos /\ EndsUpTo(StretchEnds, s) = Len(out)
                            /\ \A i \in s + 1..pos : file[i] # "LF"
    /\ phase = "end" => Len(out) = Cardinality(StretchEnds)
LinesInv == OnGrid /\ ("NUL" \notin Range(file) => FirstLines /\ ReadUpToNow)

(* The line that follows is returned, up to the stop q.                     *)
LEMMA LineReturned ==
    ASSUME ReaderInv, FirstLines, NEW s \in Stops, NEW q \in StretchEnds, s < q,
           \A j \in StretchEnds : ~(s < j /\ j < q), EndsUpTo(StretchEnds, s) = Len(out),
           NEW l, l = (IF OneChunk(SubSeq(file, s + 1, q))
                       THEN limited(SubSeq(file, s + 1, q)) ELSE <<"LF">>),
           l \in Seq(Alphabet), NEW c, pos' = q, UNCHANGED <<source, file>>,
           at_eof(c) => q = Len(file), Return(l, c)
    PROVE  FirstLines' /\ ReadUpToNow'
<1>1. /\ file \in Seq(Alphabet) /\ out \in Seq(Seq(Alphabet))
      /\ StretchEnds' = StretchEnds /\ Wanted(StretchEnds)' = Wanted(StretchEnds)
      /\ Stops' = Stops
      /\ EndsUpTo(StretchEnds, q)' = EndsUpTo(StretchEnds, q)
  BY DEF ReaderInv, StretchEnds, LineEnds, Wanted, Stops, EndsUpTo, InOrder, Piece
<1>2. /\ out' = Append(out, l) /\ Len(out') = Len(out) + 1
      /\ \A k \in 1..Len(out') : out'[k] = IF k = Len(out) + 1 THEN l ELSE out[k]
  BY <1>1 DEF Return
<1>3. /\ EndsUpTo(StretchEnds, q) = Len(out) + 1
      /\ Len(out) + 1 \in DOMAIN InOrder(StretchEnds)
      /\ Piece(StretchEnds, Len(out) + 1) = SubSeq(file, s + 1, q)
  <2>1. StretchEnds \in SUBSET (1..Len(file)) /\ s \in StretchEnds \cup {0}
    BY <1>1, StretchesWithin DEF Stops
  <2>2. /\ EndsUpTo(StretchEnds, q) = EndsUpTo(StretchEnds, s) + 1
        /\ EndsUpTo(StretchEnds, q) \in DOMAIN InOrder(StretchEnds)
        /\ Piece(StretchEnds, EndsUpTo(StretchEnds, q)) = SubSeq(file, s + 1, q)
    BY <1>1, <2>1, PieceBetween
  <2> QED
    BY <2>2
<1>4. Wanted(StretchEnds)[Len(out) + 1] = l
  BY <1>3 DEF Wanted
<1>5. /\ Cardinality(StretchEnds) \in Nat
      /\ DOMAIN InOrder(StretchEnds) = 1..Cardinality(StretchEnds)
      /\ EndsUpTo(StretchEnds, Len(file)) = Cardinality(StretchEnds)
  BY <1>1, StretchesWithin, EndFacts DEF InOrder
<1>6. FirstLines'
  <2>1. Len(out') <= Cardinality(StretchEnds)
    BY <1>2, <1>3, <1>5
  <2>2. ASSUME NEW k \in 1..Len(out')
        PROVE  out'[k] = Wanted(StretchEnds)[k]
    <3>1. k = Len(out) + 1 \/ k \in 1..Len(out)
      BY <1>1, <1>2
    <3> QED
      BY <1>2, <1>4, <3>1 DEF FirstLines
  <2> QED
    BY <1>1, <2>1, <2>2 DEF FirstLines
<1>7. ReadUpToNow'
  <2>1. phase' = "first" => pos' \in Stops /\ EndsUpTo(StretchEnds, q) = Len(out')
    BY <1>2, <1>3 DEF Stops
  <2>2. phase' = "end" => Len(out') = Cardinality(StretchEnds)
    BY <1>2, <1>3, <1>5 DEF Return
  <2>3. phase' # "more"
    BY DEF Return
  <2>4. EndsUpTo(StretchEnds, pos)' = EndsUpTo(StretchEnds, q)
    BY <1>1 DEF EndsUpTo
  <2> QED
    BY <1>1, <2>1, <2>2, <2>3, <2>4 DEF ReadUpToNow
<1> QED
  BY <1>6, <1>7

(* A file without NUL is read as it is.                                     *)
LEMMA NothingHidden ==
    ASSUME ReaderInv, "NUL" \notin Range(file)
    PROVE  \A i \in 1..Len(file) : file[i] # "NUL"
  BY DEF ReaderInv, Range

(* The chunk that completes a piece ends where the piece does: from a       *)
(* source that stops at a line feed it is the first one that holds one, and *)
(* of blocks none before it holds one.                                      *)
LEMMA CompletesAtEnd ==
    ASSUME ReaderInv, OnGrid, NEW s \in 0..pos, s \in Stops,
           \A i \in s + 1..pos : file[i] # "LF",
           s < pos + Len(read_chunk), completes_line(read_chunk)
    PROVE  /\ pos + Len(read_chunk) \in StretchEnds
           /\ \A j \in StretchEnds : ~(s < j /\ j < pos + Len(read_chunk))
           /\ at_eof(read_chunk) => pos + Len(read_chunk) = Len(file)
<1> DEFINE c == read_chunk
           q == pos + Len(c)
<1>1. /\ Len(file) \in Nat /\ pos \in Nat /\ ChunkSize \in Nat \ {0}
      /\ s \in Nat /\ s <= pos
  BY ReaderSizesAssumption DEF ReaderInv
<1>2. /\ ReaderTypeOK /\ DOMAIN file = 1..Len(file)
      /\ source \in {"line", "block"}
  BY SourceAssumption DEF ReaderTypeOK, ReaderInv
<1>3. c \in Seq(Alphabet) /\ q \in 0..Len(file) /\ Len(c) <= ChunkSize
  BY <1>2, ChunkFacts, ChunkShape
<1>4. Len(c) \in Nat /\ q \in 1..Len(file)
  BY <1>1, <1>3
<1>5. /\ \A i \in 1..Len(c) : c[i] = file[pos + i]
      /\ source = "line" => \A i \in 1..Len(c) : c[i] = "LF" => i = Len(c)
  BY <1>2, ChunkShape
<1>6. source = "block" /\ Len(c) < ChunkSize => q = Len(file)
  BY <1>2, ChunkShape
<1>7. at_eof(c) => q = Len(file)
  BY DEF at_eof
<1>8. Find(c, "LF") \in 0..Len(c) /\ (Find(c, "LF") # 0 => c[Find(c, "LF")] = "LF")
  <2> HIDE DEF c
  <2> QED
    BY <1>3, FindFacts
<1>9. Find(c, "LF") # 0 \/ q = Len(file)
  BY <1>7 DEF completes_line
<1> SUFFICES q \in StretchEnds /\ \A j \in StretchEnds : ~(s < j /\ j < q)
  BY <1>7
<1>10. s < q /\ \A i \in s + 1..pos : file[i] # "LF"
  OBVIOUS
<1>11. q = pos + Len(c)
  OBVIOUS
<1> HIDE DEF c, q
<1>12. CASE source = "line"
  <2>1. Find(c, "LF") # 0 => Find(c, "LF") = Len(c) /\ Len(c) \in 1..Len(c)
    BY <1>4, <1>5, <1>8, <1>12
  <2>2. file[q] = "LF" \/ q = Len(file)
    BY <1>5, <1>8, <1>9, <1>11, <2>1
  <2>3. ASSUME NEW j \in StretchEnds, s < j, j < q
        PROVE  FALSE
    <3>1. j \in 1..Len(file) /\ j # Len(file) /\ file[j] = "LF"
      BY <1>1, <1>2, <1>4, <1>12, <2>3 DEF StretchEnds, LineEnds
    <3>2. j > pos
      BY <1>1, <1>10, <2>3, <3>1
    <3>3. j - pos \in 1..Len(c) /\ pos + (j - pos) = j /\ j - pos # Len(c)
      BY <1>1, <1>4, <1>11, <2>3, <3>1, <3>2
    <3> QED
      BY <1>5, <1>12, <3>1, <3>3
  <2> QED
    BY <1>2, <1>4, <1>12, <2>2, <2>3 DEF StretchEnds, LineEnds
<1>13. CASE source = "block"
  <2>1. StretchEnds = {i \in 1..Len(file) :
             \/ i = Len(file)
             \/ i % ChunkSize = 0 /\ \E j \in i - ChunkSize + 1..i : file[j] = "LF"}
    BY <1>2, <1>13 DEF StretchEnds
  <2>2. ASSUME q # Len(file)
        PROVE  pos % ChunkSize = 0 /\ Len(c) = ChunkSize
    <3>1. ~(Len(c) < ChunkSize) /\ pos # Len(file)
      BY <1>1, <1>4, <1>6, <1>11, <1>13, <2>2
    <3>2. Len(c) = ChunkSize
      BY <1>1, <1>3, <1>4, <3>1
    <3> QED
      BY <1>13, <3>1, <3>2 DEF OnGrid
  <2>3. q \in StretchEnds
    <3> SUFFICES ASSUME q # Len(file)
                 PROVE  q % ChunkSize = 0 /\ \E j \in q - ChunkSize + 1..q : file[j] = "LF"
      BY <1>4, <2>1
    <3>1. q % ChunkSize = 0
      BY <1>1, <1>11, <2>2, BlocksFollow
    <3>2. Find(c, "LF") \in 1..Len(c)
      BY <1>4, <1>8, <1>9
    <3>3. file[pos + Find(c, "LF")] = "LF"
      BY <1>5, <1>8, <3>2
    <3>4. pos + Find(c, "LF") \in q - ChunkSize + 1..q
      BY <1>1, <1>4, <1>11, <2>2, <3>2
    <3> QED
      BY <3>1, <3>3, <3>4
  <2>4. ASSUME NEW j \in StretchEnds, s < j, j < q
        PROVE  FALSE
    <3>1. j \in Nat /\ j < Len(file)
      BY <1>1, <1>4, <2>1, <2>4
    <3>2. j % ChunkSize = 0
      BY <1>1, <2>1, <3>1
    <3>3. PICK i \in j - ChunkSize + 1..j : file[i] = "LF"
      BY <1>1, <2>1, <3>1
    <3>4. s % ChunkSize = 0
      <4>1. s # Len(file)
        BY <1>1, <2>4, <3>1
      <4>2. 0 % ChunkSize = 0
        BY <1>1
      <4> QED
        BY <2>1, <4>1, <4>2 DEF Stops
    <3>5. s + ChunkSize <= j
      BY <1>1, <2>4, <3>1, <3>2, <3>4, BlocksFollow
    <3>6. CASE j <= pos
      <4>1. i \in s + 1..pos
        BY <1>1, <3>1, <3>5, <3>6
      <4> QED
        BY <1>10, <3>3, <4>1
    <3>7. CASE pos < j
      <4>1. pos # Len(file)
        BY <1>1, <3>1, <3>7
      <4>2. pos % ChunkSize = 0
        BY <1>13, <4>1 DEF OnGrid
      <4>3. pos + ChunkSize <= j
        BY <1>1, <3>1, <3>2, <3>7, <4>2, BlocksFollow
      <4> QED
        BY <1>1, <1>3, <1>4, <1>11, <2>4, <3>1, <4>3
    <3> QED
      BY <1>1, <3>1, <3>6, <3>7
  <2> QED
    BY <2>3, <2>4
<1> QED
  BY <1>2, <1>12, <1>13

LEMMA FirstChunk ==
    ASSUME ReaderInv, LinesInv, "NUL" \notin Range(file), ReadFirst
    PROVE  FirstLines' /\ ReadUpToNow'
<1> DEFINE c == read_chunk
           q == pos + Len(c)
<1>0. /\ ReaderTypeOK /\ OnGrid /\ FirstLines /\ ReadUpToNow /\ phase = "first"
      /\ Len(file) \in Nat /\ pos \in Nat /\ ChunkSize \in Nat \ {0}
      /\ UNCHANGED <<source, file>> /\ pos' = q /\ c # <<>>
  BY ReaderSizesAssumption DEF LinesInv, ReaderTypeOK, ReaderInv, ReadFirst
<1>1. pos \in Stops /\ EndsUpTo(StretchEnds, pos) = Len(out)
  BY <1>0 DEF ReadUpToNow
<1>2. /\ c \in Seq(Alphabet) /\ q \in 0..Len(file) /\ Len(c) <= ChunkSize
      /\ c = SubSeq(file, pos + 1, q)
      /\ \A i \in 1..Len(c) : c[i] = file[pos + i]
      /\ Len(c) < ChunkSize => q = Len(file) \/ (Len(c) # 0 /\ c[Len(c)] = "LF")
  BY <1>0, ChunkFacts, ChunkShape
<1>3. Len(c) \in Nat \ {0}
  BY <1>0, <1>2
<1>4. \A i \in 1..Len(c) : c[i] # "NUL"
  <2>1. \A i \in 1..Len(c) : pos + i \in 1..Len(file)
    BY <1>0, <1>2
  <2> QED
    BY <1>2, <2>1, NothingHidden
<1>5. observed_bytes(c) = c /\ Head(c) # "NUL"
  <2>1. Find(c, "NUL") \in 0..Len(c) /\ (Find(c, "NUL") # 0 => c[Find(c, "NUL")] = "NUL")
    <3> HIDE DEF c
    <3> QED
      BY <1>2, FindFacts
  <2>2. Head(c) = c[1]
    BY <1>2, <1>3
  <2> QED
    BY <1>3, <1>4, <2>1, <2>2 DEF observed_bytes
<1>6. /\ Find(c, "LF") \in 0..Len(c)
      /\ \A i \in 1..Len(c) : c[i] = "LF" => Find(c, "LF") \in 1..i
      /\ Find(c, "LF") # 0 => c[Find(c, "LF")] = "LF"
  <2> HIDE DEF c
  <2> QED
    BY <1>2, FindFacts
<1>7. CASE completes_line(c)
  <2>1. Return(limited(c), c)
    BY <1>5, <1>7 DEF ReadFirst
  <2>2. /\ q \in StretchEnds /\ \A j \in StretchEnds : ~(pos < j /\ j < q)
        /\ at_eof(c) => q = Len(file)
    <3>1. \A i \in pos + 1..pos : file[i] # "LF"
      BY <1>0
    <3>2. pos \in 0..pos /\ pos < q
      BY <1>0, <1>3
    <3> QED
      BY <1>0, <1>1, <1>7, <3>1, <3>2, CompletesAtEnd
  <2>3. OneChunk(c)
    <3>1. Len(c) = ChunkSize => Find(c, "LF") # 0
      BY <1>0, <1>7 DEF completes_line, at_eof
    <3>2. c \in Seq(Alphabet) /\ Len(c) \in Nat \ {0} /\ Len(c) <= ChunkSize
      BY <1>2, <1>3
    <3>3. Find(c, "LF") # 0 => Find(c, "LF") \in 1..Len(c) /\ c[Find(c, "LF")] = "LF"
      BY <1>3, <1>6
    <3> HIDE DEF c
    <3>4. Find(c, "LF") # 0 => "LF" \in Range(c)
      BY <3>2, <3>3 DEF Range
    <3> QED
      BY <1>0, <3>1, <3>2, <3>4 DEF OneChunk
  <2>4. limited(c) \in Seq(Alphabet)
    BY <1>2, <1>5, LimitedFacts DEF Takes
  <2>5. limited(c) = IF OneChunk(SubSeq(file, pos + 1, q))
                     THEN limited(SubSeq(file, pos + 1, q)) ELSE <<"LF">>
    BY <1>2, <2>3
  <2> HIDE DEF c
  <2>6. pos < q
    BY <1>0, <1>3
  <2> HIDE DEF q
  <2> QED
    BY <1>0, <1>1, <2>1, <2>2, <2>4, <2>5, <2>6, LineReturned
<1>8. CASE ~completes_line(c)
  <2>1. phase' = "more" /\ out' = out
    BY <1>5, <1>8 DEF ReadFirst
  <2>2. Find(c, "LF") = 0 /\ ~at_eof(c)
    BY <1>8 DEF completes_line
  <2>3. \A i \in 1..Len(c) : c[i] # "LF"
    BY <1>2, <1>6, <2>2
  <2>4. Len(c) = ChunkSize
    <3>1. q = Len(file) => ~(Len(c) < ChunkSize)
      BY <2>2 DEF at_eof
    <3> HIDE DEF c
    <3>2. Len(c) # 0 => c[Len(c)] # "LF"
      BY <1>3, <2>3
    <3>3. ~(Len(c) < ChunkSize)
      BY <1>2, <1>3, <3>1, <3>2, Zenon
    <3>4. Len(c) \in Nat /\ Len(c) <= ChunkSize
      BY <1>2, <1>3
    <3> QED
      BY <1>0, <3>3, <3>4
  <2>5. \A i \in pos + 1..q : file[i] # "LF"
    <3> SUFFICES ASSUME NEW i \in pos + 1..q PROVE file[i] # "LF"
      OBVIOUS
    <3>1. i - pos \in 1..Len(c) /\ pos + (i - pos) = i
      BY <1>0, <1>3
    <3> QED
      BY <1>2, <2>3, <3>1
  <2>6. /\ StretchEnds' = StretchEnds /\ Wanted(StretchEnds)' = Wanted(StretchEnds)
        /\ Stops' = Stops /\ EndsUpTo(StretchEnds, pos) = Len(out)
    BY <1>0, <1>1 DEF StretchEnds, LineEnds, Wanted, Stops, EndsUpTo, InOrder, Piece
  <2>7. FirstLines'
    BY <1>0, <2>1, <2>6 DEF FirstLines
  <2>8. \E s \in Stops : /\ s + ChunkSize <= q /\ EndsUpTo(StretchEnds, s) = Len(out)
                         /\ \A i \in s + 1..q : file[i] # "LF"
    <3>1. pos + ChunkSize <= q
      BY <1>0, <2>4
    <3> QED
      BY <1>1, <2>5, <3>1
  <2>9. ReadUpToNow'
    BY <1>0, <2>1, <2>6, <2>8 DEF ReadUpToNow, EndsUpTo
  <2> QED
    BY <2>7, <2>9
<1> QED
  BY <1>7, <1>8

LEMMA NextChunk ==
    ASSUME ReaderInv, LinesInv, "NUL" \notin Range(file), ReadMore
    PROVE  FirstLines' /\ ReadUpToNow'
<1> DEFINE c == read_chunk
           q == pos + Len(c)
<1>0. /\ ReaderTypeOK /\ OnGrid /\ FirstLines /\ ReadUpToNow /\ phase = "more"
      /\ file \in Seq(Alphabet) /\ pos \in 0..Len(file) /\ ChunkSize \in Nat \ {0}
      /\ UNCHANGED <<source, file>> /\ pos' = q
  BY ReaderSizesAssumption DEF LinesInv, ReaderTypeOK, ReaderInv, ReadMore
<1>1. PICK s \in Stops : /\ s + ChunkSize <= pos /\ EndsUpTo(StretchEnds, s) = Len(out)
                        /\ \A i \in s + 1..pos : file[i] # "LF"
  BY <1>0 DEF ReadUpToNow
<1>2. /\ c \in Seq(Alphabet) /\ q \in 0..Len(file) /\ Len(c) <= ChunkSize
      /\ \A i \in 1..Len(c) : c[i] = file[pos + i]
      /\ Len(c) < ChunkSize => q = Len(file) \/ (Len(c) # 0 /\ c[Len(c)] = "LF")
  BY <1>0, ChunkFacts, ChunkShape
<1>3. s \in 0..pos /\ s < q /\ s + ChunkSize <= q /\ Len(c) \in Nat
  <2>1. StretchEnds \subseteq 1..Len(file) /\ Len(file) \in Nat
    BY <1>0, StretchesWithin, EndFacts
  <2>2. s \in Nat /\ Len(c) \in Nat
    BY <1>2, <2>1 DEF Stops
  <2> QED
    BY <1>0, <1>1, <2>2
<1>4. CASE completes_line(c)
  <2>1. Return(<<"LF">>, c)
    BY <1>4 DEF ReadMore
  <2>2. /\ q \in StretchEnds /\ \A j \in StretchEnds : ~(s < j /\ j < q)
        /\ at_eof(c) => q = Len(file)
    BY <1>0, <1>1, <1>3, <1>4, CompletesAtEnd
  <2>3. ~OneChunk(SubSeq(file, s + 1, q))
    <3> DEFINE l == SubSeq(file, s + 1, q)
    <3>1. /\ Len(l) = q - s /\ DOMAIN l = 1..q - s
          /\ \A i \in 1..q - s : l[i] = file[s + i]
      BY <1>0, <1>2, <1>3
    <3>2. q - s >= ChunkSize
      BY <1>0, <1>2, <1>3
    <3>3. q - s = ChunkSize => "LF" \notin Range(l)
      <4> SUFFICES ASSUME q - s = ChunkSize, NEW i \in 1..q - s
                   PROVE  file[s + i] # "LF"
        BY <3>1 DEF Range
      <4>1. s + i \in s + 1..pos
        BY <1>0, <1>1, <1>2, <1>3
      <4> QED
        BY <1>1, <4>1
    <3> HIDE DEF l
    <3>4. ~OneChunk(l)
      BY <1>0, <1>2, <1>3, <3>1, <3>2, <3>3 DEF OneChunk
    <3> QED
      BY <3>4 DEF l
  <2>4. <<"LF">> \in Seq(Alphabet)
    BY SourceAssumption
  <2> HIDE DEF c
  <2> HIDE DEF q
  <2> QED
    BY <1>0, <1>1, <1>3, <2>1, <2>2, <2>3, <2>4, LineReturned
<1>5. CASE ~completes_line(c)
  <2>1. phase' = "more" /\ out' = out
    BY <1>0, <1>5 DEF ReadMore
  <2>2. \A i \in 1..Len(c) : c[i] # "LF"
    <3>1. Find(c, "LF") = 0
      BY <1>5 DEF completes_line
    <3> HIDE DEF c
    <3>2. \A i \in 1..Len(c) : c[i] = "LF" => Find(c, "LF") \in 1..i
      BY <1>2, FindFacts
    <3> QED
      BY <1>2, <3>1, <3>2
  <2>3. \A i \in s + 1..q : file[i] # "LF"
    <3> SUFFICES ASSUME NEW i \in s + 1..q PROVE file[i] # "LF"
      OBVIOUS
    <3>1. CASE i <= pos
      BY <1>0, <1>1, <1>3, <3>1
    <3>2. CASE ~(i <= pos)
      <4>1. i - pos \in 1..Len(c) /\ pos + (i - pos) = i
        BY <1>0, <1>3, <3>2
      <4> QED
        BY <1>2, <2>2, <4>1
    <3> QED
      BY <3>1, <3>2
  <2>4. /\ StretchEnds' = StretchEnds /\ Wanted(StretchEnds)' = Wanted(StretchEnds)
        /\ Stops' = Stops
    BY <1>0 DEF StretchEnds, LineEnds, Wanted, Stops, EndsUpTo, InOrder, Piece
  <2>5. FirstLines'
    BY <1>0, <2>1, <2>4 DEF FirstLines
  <2>6. ReadUpToNow'
    BY <1>0, <1>1, <1>3, <2>1, <2>3, <2>4 DEF ReadUpToNow, EndsUpTo
  <2> QED
    BY <2>5, <2>6
<1> QED
  BY <1>4, <1>5

LEMMA LinesInductive ==
    /\ ReaderInit => LinesInv
    /\ ReaderInv /\ LinesInv /\ [ReaderNext]_readerVars => LinesInv'
<1>1. ASSUME ReaderInit
      PROVE  LinesInv
  <2>1. file \in Seq(Alphabet) /\ out = <<>> /\ pos = 0 /\ phase = "first"
    BY <1>1, ReaderInductive DEF ReaderInit, ReaderInv
  <2>2. Cardinality(StretchEnds) \in Nat /\ EndsUpTo(StretchEnds, 0) = 0
    BY <2>1, StretchesWithin, EndFacts
  <2>3. Len(out) = 0 /\ 1..Len(out) = {}
    BY <2>1
  <2>4. FirstLines
    BY <2>2, <2>3 DEF FirstLines
  <2>5. ReadUpToNow
    BY <2>1, <2>2, <2>3 DEF ReadUpToNow, Stops
  <2>6. OnGrid
    BY <2>1, ReaderSizesAssumption DEF OnGrid
  <2> QED
    BY <2>4, <2>5, <2>6 DEF LinesInv
<1>2. ASSUME ReaderInv, LinesInv, [ReaderNext]_readerVars, "NUL" \notin Range(file)
      PROVE  FirstLines' /\ ReadUpToNow'
  <2>1. CASE ReadFirst
    BY <1>2, <2>1, FirstChunk
  <2>2. CASE ReadMore
    BY <1>2, <2>2, NextChunk
  <2>3. FirstLines /\ ReadUpToNow
    BY <1>2 DEF LinesInv
  <2>4. CASE UNCHANGED <<source, file, pos, out>> /\ (phase' = phase \/ phase' = "failed")
    <3>1. /\ StretchEnds' = StretchEnds /\ Wanted(StretchEnds)' = Wanted(StretchEnds)
          /\ Stops' = Stops
      BY <2>4 DEF StretchEnds, LineEnds, Wanted, Stops, InOrder, EndsUpTo, Piece
    <3> QED
      BY <2>3, <2>4, <3>1 DEF FirstLines, ReadUpToNow, EndsUpTo
  <2>5. CASE ReadAtEnd
    <3>1. Ahead = <<>> /\ phase = "first" /\ phase' = "end" /\ UNCHANGED <<source, file, pos, out>>
      BY <2>5 DEF ReadAtEnd
    <3>2. file \in Seq(Alphabet) /\ pos \in 0..Len(file)
      BY <1>2 DEF ReaderInv
    <3>3. pos = Len(file)
      <4>1. Len(Ahead) = 0
        BY <3>1
      <4>2. Len(Ahead) = Len(file) - pos
        BY <3>2 DEF Ahead
      <4> QED
        BY <3>2, <4>1, <4>2
    <3>4. Len(out) = Cardinality(StretchEnds)
      BY <2>3, <3>1, <3>2, <3>3, StretchesWithin, EndFacts DEF ReadUpToNow
    <3>5. StretchEnds' = StretchEnds /\ Wanted(StretchEnds)' = Wanted(StretchEnds)
      BY <3>1 DEF StretchEnds, LineEnds, Wanted, InOrder, EndsUpTo, Piece
    <3> QED
      BY <2>3, <3>1, <3>4, <3>5 DEF FirstLines, ReadUpToNow
  <2>6. ReadBroken \/ UNCHANGED readerVars =>
            UNCHANGED <<source, file, pos, out>> /\ (phase' = phase \/ phase' = "failed")
    BY DEF ReadBroken, readerVars
  <2> QED
    BY <1>2, <2>1, <2>2, <2>4, <2>5, <2>6 DEF ReaderNext
<1>3. ASSUME [ReaderNext]_readerVars
      PROVE  /\ UNCHANGED <<source, file>>
             /\ pos' = pos \/ pos' = pos + Len(read_chunk)
  BY <1>3 DEF ReaderNext, ReadFirst, ReadMore, ReadAtEnd, ReadBroken, readerVars
<1>4. ASSUME ReaderInv, OnGrid, [ReaderNext]_readerVars
      PROVE  OnGrid'
  <2>1. CASE pos' = pos
    BY <1>3, <1>4, <2>1 DEF OnGrid
  <2>2. CASE pos' = pos + Len(read_chunk)
    BY <1>3, <1>4, <2>2, GridKept
  <2> QED
    BY <1>3, <1>4, <2>1, <2>2
<1> QED
  BY <1>1, <1>2, <1>3, <1>4 DEF LinesInv

(* What the reader takes for a line is returned once, in order, in a form   *)
(* the controller can take (LinesArrive): with the source of the target,    *)
(* which reads blocks, every stretch of lines, and with one that stops at   *)
(* line feeds every line, for every file over any alphabet and any lengths  *)
(* of chunks and of lines (PlayLineReader::read, read_shared_play_chunk).   *)
THEOREM LinesArriving == ReaderSpec => []LinesArrive
<1>1. ASSUME ReaderInv, LinesInv
      PROVE  EveryStretchOnce
  <2> SUFFICES ASSUME "NUL" \notin Range(file)
               PROVE  IF phase = "end" THEN out = Wanted(StretchEnds)
                      ELSE IsPrefix(out, Wanted(StretchEnds))
    BY DEF EveryStretchOnce
  <2>1. /\ FirstLines /\ out \in Seq(Seq(Alphabet)) /\ file \in Seq(Alphabet)
        /\ phase = "end" => Len(out) = Cardinality(StretchEnds)
    BY <1>1 DEF LinesInv, ReadUpToNow, ReaderInv
  <2>2. Cardinality(StretchEnds) \in Nat
    BY <2>1, StretchesWithin, EndFacts
  <2>3. /\ DOMAIN Wanted(StretchEnds) = 1..Cardinality(StretchEnds)
        /\ Len(Wanted(StretchEnds)) = Cardinality(StretchEnds)
        /\ Wanted(StretchEnds) = [k \in 1..Cardinality(StretchEnds) |-> Wanted(StretchEnds)[k]]
    BY <2>2 DEF Wanted, InOrder
  <2>4. CASE phase = "end"
    <3>1. out = [k \in 1..Cardinality(StretchEnds) |-> out[k]]
      BY <2>1, <2>4
    <3> QED
      BY <2>1, <2>3, <2>4, <3>1 DEF FirstLines
  <2>5. IsPrefix(out, Wanted(StretchEnds))
    <3>1. Len(out) \in Nat /\ Len(out) <= Len(Wanted(StretchEnds))
      BY <2>1, <2>3 DEF FirstLines
    <3>2. SubSeq(out, 1, Len(out)) = [k \in 1..Len(out) |-> out[k]]
      BY <2>1, <3>1
    <3>3. SubSeq(Wanted(StretchEnds), 1, Len(out)) = [k \in 1..Len(out) |-> Wanted(StretchEnds)[k]]
      BY <2>3, <3>1
    <3> QED
      BY <2>1, <3>1, <3>2, <3>3 DEF IsPrefix, FirstLines
  <2> QED
    BY <2>4, <2>5
<1>2. ReaderSpec => [](ReaderInv /\ LinesInv)
  BY ReaderInductive, LinesInductive, PTL DEF ReaderSpec
<1>3. EveryStretchOnce => (source = "line" => EveryLineOnce)
  BY DEF EveryStretchOnce, EveryLineOnce, StretchEnds
<1>4. ReaderSpec => []EveryStretchOnce
  BY <1>1, <1>2, PTL
<1> QED
  BY <1>3, <1>4, LinesFit, PTL DEF LinesArrive

(* The variables of the three readers of a file keep their types and bounds *)
(* (StreamTypesOK), for every file, every offset width and all faults.      *)
THEOREM StreamTypes == MCSpec => []StreamTypesOK
<1>1. MCInit => DownloadInit /\ PlayInit /\ ReaderInit
  BY DEF MCInit
<1>2. [MCNext]_<<part, downloadVars, playVars, readerVars>> =>
          [DownloadNext]_downloadVars /\ [PlayNext]_playVars /\ [ReaderNext]_readerVars
  BY DEF MCNext
<1>3. MCSpec => DownloadSpec /\ PlaySpec /\ ReaderSpec
  BY <1>1, <1>2, PTL DEF MCSpec, DownloadSpec, PlaySpec, ReaderSpec
<1>4. ReaderInv => ReaderTypeOK
  BY DEF ReaderInv, ReaderTypeOK
<1>5. ReaderSpec => []ReaderTypeOK
  BY <1>4, ReaderInductive, PTL DEF ReaderSpec
<1> QED
  BY <1>3, <1>5, DownloadTypes, PlayTypes, PTL DEF StreamTypesOK
=============================================================================
