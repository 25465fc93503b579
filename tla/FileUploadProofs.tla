-------------------------- MODULE FileUploadProofs --------------------------
(***************************************************************************)
(* Proofs about FileUpload for every choice of limits, announced counts    *)
(* and storage faults.  Type correctness is unconditional; the integrity   *)
(* of the file needs writes that fail leave nothing behind, and a flush    *)
(* that works, because the code looks at neither.                          *)
(***************************************************************************)
EXTENDS FileUpload, SequenceTheorems, TLAPS

Contents == {"absent", "old", "new", "torn"}

(* cleanup leaves an idle machine, a typed card and a cancel frame.        *)
LEMMA CleanupTypes ==
    ASSUME TypeOK, cleanup
    PROVE  active' = FALSE /\ sent' \in Replies /\ disk' \in [Files -> Contents]
<1>1. Target(firmware) \in Files /\ "md5" \in Files
  BY DEF Target, Files
<1>2. disk \in [Files -> Contents]
  BY DEF TypeOK, Contents
<1>3. disk' = [disk EXCEPT ![Target(firmware)] = "absent", !["md5"] = "absent"]
  BY DEF cleanup
<1>4. disk' \in [Files -> Contents]
  BY <1>1, <1>2, <1>3 DEF Contents
<1> QED
  BY <1>4 DEF cleanup, Replies

(* A served upload is below both limits, so a cycle may add one to either. *)
BelowLimits == Serving => retries < RetryLimit /\ history < SilentLimit + UnmatchedLimit

TypeInv == TypeOK /\ BelowLimits /\ (step # "none" => active)

(* The end of a cycle keeps TypeInv, given types for what the handler set. *)
LEMMA CycleStep ==
    ASSUME TypeInv, Serving, step' = step,
           NEW h \in 0..(SilentLimit + UnmatchedLimit),
           NEW r \in 0..RetryLimit, NEW i \in 0..(IdleLimit + 1),
           NEW reply \in Replies, finish_cycle(h, r, i, reply),
           h < SilentLimit + UnmatchedLimit \/ over_limits(r, i),
           expected' \in {"md5", "geometry", "data"},
           requested' \in Nat, announced' \in Nat, firmware' \in BOOLEAN,
           stream' \in Seq(Int), failures' \in Nat
    PROVE  TypeInv'
<1> USE LimitsAssumption
<1>1. history' = h /\ retries' = r /\ idle' = i /\ step' = "none"
  BY DEF finish_cycle, Serving
<1>2. CASE over_limits(r, i)
  <2>1. active' = FALSE /\ sent' \in Replies /\ disk' \in [Files -> Contents]
    BY <1>2, CleanupTypes DEF finish_cycle, TypeInv
  <2> QED
    BY <1>1, <2>1 DEF TypeInv, TypeOK, BelowLimits, Serving, Contents
<1>3. CASE ~over_limits(r, i)
  <2>1. active' = active /\ sent' = reply /\ disk' = disk
    BY <1>3 DEF finish_cycle
  <2>2. r < RetryLimit /\ h < SilentLimit + UnmatchedLimit
    BY <1>3 DEF over_limits
  <2> QED
    BY <1>1, <2>1, <2>2 DEF TypeInv, TypeOK, BelowLimits, Serving
<1> QED
  BY <1>2, <1>3

(* TypeInv holds throughout: one step per handler.                         *)
LEMMA TypeInvariant == Spec => []TypeInv
<1> USE LimitsAssumption
<1>1. Init => TypeInv
  <2> SUFFICES ASSUME Init PROVE TypeInv
    OBVIOUS
  <2>1. disk \in [Files -> Contents]
    BY DEF Init, Contents
  <2>2. stream \in Seq(Int)
    BY DEF Init
  <2>3. 0 \in 0..(SilentLimit + UnmatchedLimit) /\ 0 \in 0..RetryLimit
        /\ 0 \in 0..(IdleLimit + 1) /\ 1 \in Nat /\ 0 \in Nat
    OBVIOUS
  <2>4. TypeOK
    BY <2>1, <2>2, <2>3 DEF Init, TypeOK, Replies, Contents
  <2> QED
    BY <2>4 DEF Init, TypeInv, BelowLimits, Serving
<1>2. TypeInv /\ [Next]_vars => TypeInv'
  <2> SUFFICES ASSUME TypeInv, [Next]_vars PROVE TypeInv'
    OBVIOUS
  <2>1. CASE UNCHANGED vars
    BY <2>1 DEF vars, machine, TypeInv, TypeOK, BelowLimits, Serving
  <2>2. ASSUME NEW fw \in BOOLEAN, Start(fw) PROVE TypeInv'
    <3>1. disk' \in [Files -> Contents]
      BY <2>2 DEF Start, OpenedDisk, TypeInv, TypeOK, Contents, Files, Target
    <3>2. stream' \in Seq(Int)
      BY <2>2 DEF Start
    <3> QED
      BY <2>2, <3>1, <3>2 DEF Start, TypeInv, TypeOK, BelowLimits, Serving, Contents, Replies
  <2>3. ASSUME NEW fw \in BOOLEAN, StartFails(fw) PROVE TypeInv'
    <3>1. disk' \in [Files -> Contents] /\ firmware' \in BOOLEAN
      BY <2>3 DEF StartFails, TypeInv, TypeOK, Contents, Files, Target
    <3> QED
      BY <2>3, <3>1 DEF StartFails, TypeInv, TypeOK, BelowLimits, Serving, Contents, Replies
  <2>0. /\ history \in 0..(SilentLimit + UnmatchedLimit) /\ retries \in 0..RetryLimit
        /\ Serving => history < SilentLimit + UnmatchedLimit
        /\ idle \in 0..(IdleLimit + 1) /\ 0 \in 0..(IdleLimit + 1)
        /\ 0 \in 0..RetryLimit /\ 0 \in 0..(SilentLimit + UnmatchedLimit)
        /\ 0 < SilentLimit + UnmatchedLimit
        /\ expected \in {"md5", "geometry", "data"} /\ expected \in Replies
        /\ requested \in Nat /\ announced \in Nat /\ firmware \in BOOLEAN
        /\ stream \in Seq(Int) /\ failures \in Nat /\ sent \in Replies
        /\ {"md5", "geometry", "data", "retry"} \subseteq Replies
    BY DEF TypeInv, TypeOK, BelowLimits, Replies
  <2>4. ASSUME Serving, accept_md5 PROVE TypeInv'
    <3>1. finish_cycle(history, retries, 0, "geometry") /\ expected' = "geometry"
          /\ UNCHANGED <<requested, announced, firmware, step, stream, failures>>
      BY <2>4 DEF accept_md5
    <3> QED
      BY <2>4, <3>1, <2>0, CycleStep
  <2>5. ASSUME Serving, NEW n \in FrameCounts, accept_geometry(n) PROVE TypeInv'
    <3>1. finish_cycle(history, retries, 0, "data") /\ expected' = "data"
          /\ announced' = n /\ requested' = 1
          /\ UNCHANGED <<firmware, step, stream, failures>>
      BY <2>5 DEF accept_geometry
    <3> QED
      BY <2>5, <3>1, <2>0, CycleStep, FrameCountsAssumption
  <2>6. ASSUME Serving, write_fails PROVE TypeInv'
    <3>1. finish_cycle(history, retries, 0, "retry") /\ failures' = failures + 1
          /\ UNCHANGED <<expected, requested, announced, firmware, step>>
      BY <2>6 DEF write_fails
    <3>2. stream' = stream \/ stream' = Append(stream, -requested)
      BY <2>6 DEF write_fails
    <3>3. stream' \in Seq(Int)
      BY <2>0, <3>2
    <3> QED
      BY <2>6, <3>1, <3>3, <2>0, CycleStep
  <2>7. ASSUME Serving, accept_data PROVE TypeInv'
    <3>1. finish_cycle(0, 0, 0, "data") /\ requested' = requested + 1
          /\ stream' = Append(stream, requested)
          /\ UNCHANGED <<expected, announced, firmware, step, failures>>
      BY <2>7 DEF accept_data
    <3>2. stream' \in Seq(Int)
      BY <2>0, <3>1
    <3> QED
      BY <2>7, <3>1, <3>2, <2>0, CycleStep
  <2>8. ASSUME Serving, accept_last PROVE TypeInv'
    <3>1. stream' \in Seq(Int)
      BY <2>0, <2>8 DEF accept_last
    <3>2. TypeOK'
      <4>1. sent' \in Replies /\ idle' \in 0..(IdleLimit + 1)
            /\ step' \in {"none", "flush", "remove", "rename", "report"}
            /\ UNCHANGED <<active, expected, requested, announced, history,
                           retries, firmware, disk, failures>>
        BY <2>0, <2>8 DEF accept_last, Replies
      <4> QED
        BY <3>1, <4>1 DEF TypeInv, TypeOK
    <3> QED
      BY <2>8, <3>2 DEF accept_last, TypeInv, BelowLimits, Serving
  <2>9. ASSUME Serving, cancel PROVE TypeInv'
    <3>1. active' = FALSE /\ sent' \in Replies /\ disk' \in [Files -> Contents]
      BY <2>9, CleanupTypes DEF cancel, TypeInv
    <3>2. idle' \in 0..(IdleLimit + 1) /\ step' = "none"
          /\ UNCHANGED <<expected, requested, announced, history, retries,
                         firmware, step, stream, failures>>
      BY <2>0, <2>9 DEF cancel, Serving
    <3>3. TypeOK'
      BY <3>1, <3>2 DEF TypeInv, TypeOK, Contents
    <3> QED
      BY <3>1, <3>2, <3>3 DEF TypeInv, BelowLimits, Serving
  <2>10. ASSUME Serving, record_unexpected PROVE TypeInv'
    <3>0. UNCHANGED <<expected, requested, announced, firmware, step, stream, failures>>
      BY <2>10 DEF record_unexpected
    <3>1. CASE history + 1 < UnmatchedLimit
      <4>1. finish_cycle(history + 1, retries, 0, sent)
        BY <2>10, <3>1 DEF record_unexpected
      <4>2. /\ history + 1 \in 0..(SilentLimit + UnmatchedLimit)
            /\ history + 1 < SilentLimit + UnmatchedLimit
        BY <2>0, <3>1
      <4> QED
        BY <2>0, <2>10, <3>0, <4>1, <4>2, CycleStep
    <3>2. CASE ~(history + 1 < UnmatchedLimit)
      <4>1. finish_cycle(0, retries + 1, 0, expected)
        BY <2>10, <3>2 DEF record_unexpected
      <4>2. retries + 1 \in 0..RetryLimit
        BY <2>0, <2>10 DEF TypeInv, BelowLimits
      <4> QED
        BY <2>0, <2>10, <3>0, <4>1, <4>2, CycleStep
    <3> QED
      BY <3>1, <3>2
  <2>11. ASSUME NEW d \in {1, IdleLimit + 1}, Poll(d) PROVE TypeInv'
    <3>0. Serving /\ UNCHANGED <<expected, requested, announced, firmware, step, stream, failures>>
      BY <2>11 DEF Poll
    <3>1. Capped(idle + d) \in 0..(IdleLimit + 1)
      BY <2>0 DEF Capped
    <3>2. /\ history + 1 \in 0..(SilentLimit + UnmatchedLimit)
          /\ retries + 1 \in 0..RetryLimit
      BY <2>0, <3>0 DEF TypeInv, BelowLimits
    <3>3. CASE over_limits(retries, Capped(idle + d)) \/ history + 1 < SilentLimit
      <4>1. finish_cycle(history + 1, retries, Capped(idle + d), sent)
        BY <2>11, <3>3 DEF Poll
      <4>2. \/ history + 1 < SilentLimit + UnmatchedLimit
            \/ over_limits(retries, Capped(idle + d))
        BY <2>0, <3>3
      <4> QED
        BY <2>0, <3>0, <3>1, <3>2, <4>1, <4>2, CycleStep
    <3>4. CASE ~(over_limits(retries, Capped(idle + d)) \/ history + 1 < SilentLimit)
      <4>1. finish_cycle(0, retries + 1, Capped(idle + d), "retry")
        BY <2>11, <3>4 DEF Poll
      <4> QED
        BY <2>0, <3>0, <3>1, <3>2, <4>1, CycleStep
    <3> QED
      BY <3>3, <3>4
  <2>12. ASSUME NEW d \in {1, IdleLimit + 1}, Resume(d) PROVE TypeInv'
    <3>1. Capped(idle + d) \in 0..(IdleLimit + 1)
      BY <2>0 DEF Capped
    <3>2. /\ Serving /\ idle' = Capped(idle + d)
          /\ UNCHANGED <<expected, requested, announced, history, retries, firmware,
                         step, stream, failures>>
      BY <2>12 DEF Resume
    <3>3. \/ cleanup
          \/ sent' = expected /\ UNCHANGED <<active, disk>>
      BY <2>12 DEF Resume
    <3>4. /\ active' \in BOOLEAN /\ sent' \in Replies /\ disk' \in [Files -> Contents]
      BY <2>0, <3>3, CleanupTypes DEF TypeInv, TypeOK, Contents
    <3> QED
      BY <3>1, <3>2, <3>4 DEF TypeInv, TypeOK, BelowLimits, Serving, Contents
  <2>13. ASSUME Complete PROVE TypeInv'
    <3>1. /\ disk' \in [Files -> Contents] /\ sent' \in Replies
          /\ active' \in BOOLEAN
          /\ step' \in {"none", "flush", "remove", "rename", "report"}
      <4>1. CASE CompleteFlush
        <5>1. disk' \in [Files -> Contents]
          BY <4>1 DEF CompleteFlush, TypeInv, TypeOK, Files, Target, Contents
        <5> QED
          BY <4>1, <5>1 DEF CompleteFlush, TypeInv, TypeOK
      <4>2. CASE CompleteRemove
        BY <4>2 DEF CompleteRemove, TypeInv, TypeOK, Files, Contents
      <4>3. CASE CompleteRename
        <5>1. disk' \in [Files -> Contents]
          BY <4>3 DEF CompleteRename, TypeInv, TypeOK, Files, Contents
        <5> QED
          BY <4>3, <5>1 DEF CompleteRename, TypeInv, TypeOK, Replies
      <4>4. CASE CompleteReport
        BY <4>4 DEF CompleteReport, TypeInv, TypeOK, Replies, Contents
      <4> QED
        BY <2>13, <4>1, <4>2, <4>3, <4>4 DEF Complete
    <3>2. UNCHANGED <<machine, stream, failures>>
      BY <2>13 DEF Complete, CompleteFlush, CompleteRemove, CompleteRename, CompleteReport
    <3>3. /\ step # "none" /\ (step' = "none" => ~active')
          /\ (step' # "none" => active' = active)
      <4>1. CASE CompleteFlush
        BY <4>1 DEF CompleteFlush, TypeInv, TypeOK
      <4>2. CASE CompleteRemove
        BY <4>2 DEF CompleteRemove
      <4>3. CASE CompleteRename
        BY <4>3 DEF CompleteRename
      <4>4. CASE CompleteReport
        BY <4>4 DEF CompleteReport
      <4> QED
        BY <2>13, <4>1, <4>2, <4>3, <4>4 DEF Complete
    <3>4. TypeOK'
      BY <3>1, <3>2 DEF machine, TypeInv, TypeOK, Contents
    <3>5. active
      BY <3>3 DEF TypeInv
    <3>6. ~Serving'
      BY <3>3 DEF Serving
    <3>7. step' # "none" => active'
      BY <3>3, <3>5
    <3> QED
      BY <3>4, <3>6, <3>7 DEF TypeInv, BelowLimits
  <2>14. ASSUME PowerLoss PROVE TypeInv'
    <3>1. stream' \in Seq(Int)
      BY <2>14 DEF PowerLoss
    <3>2. 0 \in 0..(SilentLimit + UnmatchedLimit) /\ 0 \in 0..RetryLimit
          /\ 0 \in 0..(IdleLimit + 1) /\ 1 \in Nat /\ 0 \in Nat
      OBVIOUS
    <3>3. TypeOK'
      BY <2>14, <3>1, <3>2 DEF PowerLoss, TypeInv, TypeOK, Replies
    <3> QED
      BY <2>14, <3>3 DEF PowerLoss, TypeInv, BelowLimits, Serving
  <2> QED
    BY <2>1, <2>2, <2>3, <2>4, <2>5, <2>6, <2>7, <2>8, <2>9, <2>10, <2>11,
       <2>12, <2>13, <2>14 DEF Next, Handle
<1> QED
  BY <1>1, <1>2, PTL DEF Spec

(* Every handler of the upload keeps the counters, the packet state, the   *)
(* stream and the card in their types, retry count and idle time bounded.  *)
THEOREM UploadTypes == Spec => []TypeOK
BY TypeInvariant, PTL DEF TypeInv

-----------------------------------------------------------------------------
(* The blocks 1 to n, each once and in order.                              *)
Prefix(n) == [i \in 1..n |-> i]

(* Appending block n+1 to the blocks 1 to n gives the blocks 1 to n+1.     *)
LEMMA AppendBlock == \A n \in Nat : Append(Prefix(n), n + 1) = Prefix(n + 1)
<1> SUFFICES ASSUME NEW n \in Nat PROVE Append(Prefix(n), n + 1) = Prefix(n + 1)
  OBVIOUS
<1>1. Prefix(n) \in Seq(Int) /\ Len(Prefix(n)) = n
  BY DEF Prefix
<1>2. Append(Prefix(n), n + 1) \in Seq(Int) /\ Prefix(n + 1) \in Seq(Int)
  BY <1>1 DEF Prefix
<1>3. Len(Append(Prefix(n), n + 1)) = n + 1 /\ Len(Prefix(n + 1)) = n + 1
  BY <1>1 DEF Prefix
<1>4. \A i \in 1..(n + 1) : Append(Prefix(n), n + 1)[i] = Prefix(n + 1)[i]
  BY <1>1 DEF Prefix
<1> QED
  BY <1>2, <1>3, <1>4, SeqEqual

Last(n) == IF n = 0 THEN 1 ELSE n
FinalPath == IF firmware THEN "firmware" ELSE "file"

(* What the stream holds at every packet boundary.                         *)
StreamInv ==
    /\ Serving /\ expected # "data" => stream = <<>>
    /\ Serving /\ expected = "data" =>
          requested \in 1..Last(announced) /\ stream = Prefix(requested - 1)
    /\ step = "flush" => stream = Prefix(Last(announced))

(* What the card holds while complete() works through its steps.           *)
DiskInv ==
    /\ disk["firmware"] # "torn"
    /\ step \in {"remove", "rename"} => firmware /\ disk["partial"] = "new"
    /\ step = "report" => disk[FinalPath] = "new"
    /\ active => sent # "success"
    /\ sent = "success" => disk[FinalPath] = "new"

(* The stream grows only by the awaited block, so it is exactly the blocks *)
(* received, when a failed write leaves nothing in it.                     *)
LEMMA StreamStep ==
    ASSUME "partial_write" \notin Faults, TypeInv, StreamInv, [Next]_vars
    PROVE  StreamInv'
<1>0. /\ requested \in Nat /\ announced \in Nat
      /\ expected \in {"md5", "geometry", "data"}
  BY DEF TypeInv, TypeOK
<1>0a. Prefix(0) = <<>>
  BY DEF Prefix
<1>1. CASE UNCHANGED vars
  BY <1>1 DEF vars, machine, StreamInv, Serving
<1>2. ASSUME NEW fw \in BOOLEAN, Start(fw) PROVE StreamInv'
  BY <1>2 DEF Start, StreamInv, Serving
<1>3. ASSUME NEW fw \in BOOLEAN, StartFails(fw) PROVE StreamInv'
  BY <1>3 DEF StartFails, StreamInv, Serving
<1>4. ASSUME Serving, accept_md5 PROVE StreamInv'
  BY <1>4 DEF accept_md5, StreamInv, Serving
<1>5. ASSUME Serving, NEW n \in FrameCounts, accept_geometry(n) PROVE StreamInv'
  <2>1. stream = <<>> /\ stream' = <<>> /\ step' = "none"
        /\ expected' = "data" /\ requested' = 1 /\ announced' = n
    BY <1>5 DEF accept_geometry, StreamInv, Serving
  <2>2. 1 \in 1..Last(n)
    BY FrameCountsAssumption DEF Last
  <2> QED
    BY <2>1, <2>2, <1>0a DEF StreamInv
<1>6. ASSUME Serving, write_fails PROVE StreamInv'
  BY <1>6 DEF write_fails, StreamInv, Serving
<1>7. ASSUME Serving, accept_data PROVE StreamInv'
  <2>1. /\ requested \in 1..Last(announced) /\ stream = Prefix(requested - 1)
        /\ requested < announced /\ stream' = Append(stream, requested)
        /\ requested' = requested + 1 /\ announced' = announced
        /\ expected' = "data" /\ step' = "none"
    BY <1>7 DEF accept_data, StreamInv, Serving
  <2>2. stream' = Prefix(requested)
    <3>1. requested - 1 \in Nat /\ (requested - 1) + 1 = requested
      BY <2>1, <1>0
    <3> QED
      BY <2>1, <3>1, AppendBlock
  <2>3. requested + 1 \in 1..Last(announced) /\ (requested + 1) - 1 = requested
    BY <2>1, <1>0 DEF Last
  <2> QED
    BY <2>1, <2>2, <2>3 DEF StreamInv
<1>8. ASSUME Serving, accept_last PROVE StreamInv'
  <2>1. /\ requested \in 1..Last(announced) /\ stream = Prefix(requested - 1)
        /\ requested >= announced /\ stream' = Append(stream, requested)
        /\ announced' = announced /\ step' = "flush"
    BY <1>8 DEF accept_last, StreamInv, Serving
  <2>2. requested = Last(announced)
    BY <2>1, <1>0 DEF Last
  <2>3. stream' = Prefix(requested)
    <3>1. requested - 1 \in Nat /\ (requested - 1) + 1 = requested
      BY <2>1, <1>0
    <3> QED
      BY <2>1, <3>1, AppendBlock
  <2> QED
    BY <2>1, <2>2, <2>3 DEF StreamInv, Serving
<1>9. ASSUME Serving, cancel PROVE StreamInv'
  BY <1>9 DEF cancel, cleanup, StreamInv, Serving
<1>10. ASSUME Serving, record_unexpected PROVE StreamInv'
  BY <1>10 DEF record_unexpected, StreamInv, Serving
<1>11. ASSUME NEW d \in {1, IdleLimit + 1}, Poll(d) \/ Resume(d) PROVE StreamInv'
  BY <1>11 DEF Poll, Resume, StreamInv, Serving
<1>12. ASSUME Complete PROVE StreamInv'
  <2>1. step # "none" /\ step' # "flush"
        /\ (step' = "none" => ~active') /\ UNCHANGED stream
    BY <1>12 DEF Complete, CompleteFlush, CompleteRemove, CompleteRename, CompleteReport
  <2> QED
    BY <2>1 DEF StreamInv, Serving
<1>13. ASSUME PowerLoss PROVE StreamInv'
  BY <1>13 DEF PowerLoss, StreamInv, Serving
<1> QED
  BY <1>1, <1>2, <1>3, <1>4, <1>5, <1>6, <1>7, <1>8, <1>9, <1>10, <1>11,
     <1>12, <1>13 DEF Next, Handle

(* While block n is awaited the stream holds blocks 1 to n-1, for every    *)
(* host, every announced count and every schedule of polls and reconnects, *)
(* provided a failed write leaves nothing in the stream.                   *)
THEOREM UploadAtBoundary ==
    ASSUME "partial_write" \notin Faults
    PROVE  Spec => []RequestAtBoundary
<1>1. Init => StreamInv
  BY DEF Init, StreamInv, Serving
<1>2. TypeInv /\ StreamInv /\ [Next]_vars => StreamInv'
  BY StreamStep
<1>3. StreamInv => RequestAtBoundary
  BY DEF StreamInv, RequestAtBoundary, Prefix
<1> QED
  BY <1>1, <1>2, <1>3, TypeInvariant, PTL DEF Spec

(* A cycle's end answers with a request, a retry or a cancel, never with   *)
(* success, and touches no file but the upload's own target and sidecar.   *)
LEMMA CycleKeepsFirmware ==
    ASSUME TypeInv, DiskInv, Serving, NEW h, NEW r, NEW i,
           NEW reply \in Replies \ {"success"},
           step' = step, firmware' = firmware,
           finish_cycle(h, r, i, reply)
    PROVE  DiskInv'
<1>1. step' = "none" /\ disk \in [Files -> Contents]
  BY DEF Serving, TypeInv, TypeOK, Contents
<1>2. sent' # "success" /\ disk'["firmware"] # "torn"
  BY <1>1 DEF finish_cycle, cleanup, DiskInv, Replies, Target, Files
<1> QED
  BY <1>1, <1>2 DEF DiskInv

(* Every step keeps DiskInv; the files change only in start, cleanup and   *)
(* the steps of complete().                                                *)
LEMMA DiskStep ==
    ASSUME "partial_write" \notin Faults, "flush" \notin Faults,
           TypeInv, StreamInv, DiskInv, [Next]_vars
    PROVE  DiskInv'
<1>0. disk \in [Files -> Contents] /\ announced \in Nat /\ firmware \in BOOLEAN
      /\ expected \in {"md5", "geometry", "data"} /\ sent \in Replies
  BY DEF TypeInv, TypeOK, Contents
<1>0a. {"md5", "geometry", "data", "retry"} \subseteq Replies \ {"success"}
  BY DEF Replies
<1>0b. Serving => sent \in Replies \ {"success"}
  BY <1>0 DEF Serving, DiskInv
<1>1. CASE UNCHANGED vars
  BY <1>1 DEF vars, machine, DiskInv, FinalPath
<1>2. ASSUME NEW fw \in BOOLEAN, Start(fw) PROVE DiskInv'
  BY <1>0, <1>2 DEF Start, OpenedDisk, DiskInv, Files, Target
<1>3. ASSUME NEW fw \in BOOLEAN, StartFails(fw) PROVE DiskInv'
  <2>1. disk'["firmware"] = disk["firmware"]
    BY <1>0, <1>3 DEF StartFails, Files, Target
  <2> QED
    BY <1>3, <2>1 DEF StartFails, DiskInv
<1>4. ASSUME Serving, accept_md5 PROVE DiskInv'
  BY <1>0a, <1>4, CycleKeepsFirmware DEF accept_md5
<1>5. ASSUME Serving, NEW n \in FrameCounts, accept_geometry(n) PROVE DiskInv'
  BY <1>0a, <1>5, CycleKeepsFirmware DEF accept_geometry
<1>6. ASSUME Serving, write_fails PROVE DiskInv'
  BY <1>0a, <1>6, CycleKeepsFirmware DEF write_fails
<1>7. ASSUME Serving, accept_data PROVE DiskInv'
  BY <1>0a, <1>7, CycleKeepsFirmware DEF accept_data
<1>8. ASSUME Serving, accept_last PROVE DiskInv'
  BY <1>8 DEF accept_last, DiskInv, FinalPath
<1>9. ASSUME Serving, cancel PROVE DiskInv'
  <2>1. disk'["firmware"] = disk["firmware"]
    BY <1>0, <1>9 DEF cancel, cleanup, Files, Target
  <2> QED
    BY <1>9, <2>1 DEF cancel, cleanup, DiskInv, Serving
<1>10. ASSUME Serving, record_unexpected PROVE DiskInv'
  <2>1. /\ step' = step /\ firmware' = firmware
        /\ \/ finish_cycle(history + 1, retries, 0, sent)
           \/ finish_cycle(0, retries + 1, 0, expected)
    BY <1>10 DEF record_unexpected
  <2> QED
    BY <1>0, <1>0a, <1>0b, <1>10, <2>1, CycleKeepsFirmware
<1>11. ASSUME NEW d \in {1, IdleLimit + 1}, Poll(d) PROVE DiskInv'
  <2>1. /\ Serving /\ step' = step /\ firmware' = firmware
        /\ \/ finish_cycle(history + 1, retries, Capped(idle + d), sent)
           \/ finish_cycle(0, retries + 1, Capped(idle + d), "retry")
    BY <1>11 DEF Poll
  <2> QED
    BY <1>0, <1>0a, <1>0b, <2>1, CycleKeepsFirmware
<1>12. ASSUME NEW d \in {1, IdleLimit + 1}, Resume(d) PROVE DiskInv'
  <2>1. /\ step' = "none" /\ sent' # "success"
        /\ disk'["firmware"] = disk["firmware"]
    BY <1>0, <1>12 DEF Resume, cleanup, Serving, Files, Target
  <2> QED
    BY <2>1 DEF DiskInv
<1>13. ASSUME CompleteFlush PROVE DiskInv'
  <2>1. stream = Blocks(announced) /\ active /\ sent # "success"
    BY <1>0, <1>13 DEF CompleteFlush, StreamInv, Prefix, Last, Blocks, TypeInv, DiskInv
  <2>2. /\ disk' = [disk EXCEPT !["md5"] = "new", ![Target(firmware)] = "new"]
        /\ step' = IF firmware THEN "remove" ELSE "report"
        /\ firmware' = firmware /\ sent' = sent
    BY <1>13, <2>1 DEF CompleteFlush, machine
  <2>3. disk'["firmware"] # "torn" /\ disk'[Target(firmware)] = "new"
    BY <1>0, <2>2 DEF DiskInv, Files, Target
  <2> QED
    BY <1>0, <2>1, <2>2, <2>3 DEF DiskInv, FinalPath, Target
<1>14. ASSUME CompleteRemove PROVE DiskInv'
  BY <1>0, <1>14 DEF CompleteRemove, DiskInv, FinalPath, TypeInv, Files, machine
<1>15. ASSUME CompleteRename PROVE DiskInv'
  BY <1>0, <1>15 DEF CompleteRename, DiskInv, FinalPath, TypeInv, Files, machine
<1>16. ASSUME CompleteReport PROVE DiskInv'
  BY <1>0, <1>16 DEF CompleteReport, DiskInv, FinalPath, machine
<1>17. ASSUME PowerLoss PROVE DiskInv'
  BY <1>17 DEF PowerLoss, DiskInv
<1> QED
  BY <1>1, <1>2, <1>3, <1>4, <1>5, <1>6, <1>7, <1>8, <1>9, <1>10, <1>11,
     <1>12, <1>13, <1>14, <1>15, <1>16, <1>17 DEF Next, Handle, Complete

(* When failed writes leave nothing behind and the flush works, success is *)
(* reported only for a whole file and /firmware.bin is never torn, through *)
(* power loss at any point, for every host, count and limit.               *)
THEOREM UploadIntegrity ==
    ASSUME "partial_write" \notin Faults, "flush" \notin Faults
    PROVE  Spec => [](FirmwareNeverTorn /\ SuccessIsWhole)
<1>1. Init => StreamInv /\ DiskInv
  <2> SUFFICES ASSUME Init PROVE StreamInv /\ DiskInv
    OBVIOUS
  <2>1. disk["firmware"] \in {"absent", "old"}
    BY DEF Init, Files
  <2> QED
    BY <2>1 DEF Init, StreamInv, DiskInv, Serving
<1>2. TypeInv /\ StreamInv /\ [Next]_vars => StreamInv'
  BY StreamStep
<1>3. TypeInv /\ StreamInv /\ DiskInv /\ [Next]_vars => DiskInv'
  BY DiskStep
<1>4. DiskInv => FirmwareNeverTorn /\ SuccessIsWhole
  BY DEF DiskInv, FirmwareNeverTorn, SuccessIsWhole, FinalPath
<1> QED
  BY <1>1, <1>2, <1>3, <1>4, TypeInvariant, PTL DEF Spec

(* Success is reported only for a file that is whole on the card, written  *)
(* to its place (complete of file_upload.cpp).                             *)
THEOREM UploadSuccessIsWhole ==
    ASSUME "partial_write" \notin Faults, "flush" \notin Faults
    PROVE  Spec => []SuccessIsWhole
BY UploadIntegrity, PTL
=============================================================================
