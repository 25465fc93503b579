------------------------- MODULE ControllerRecords -------------------------
(***************************************************************************)
(* How the motion controller fetches two files from the mainboard: its     *)
(* configuration, several records to a frame, and the factory data, one    *)
(* record to a frame and removed when the controller says it has them all. *)
(* A piece of a file is its class; a record is its place in the file.  A   *)
(* behaviour is about one of the two exchanges, which share nothing.       *)
(***************************************************************************)
EXTENDS Integers, Sequences, FiniteSets, SequencesExt

CONSTANTS
    MaxPieces,      \* bound: pieces of a file
    PerFrame,       \* records of the largest size that share a frame
    FilesChange     \* TRUE: a host may replace the file during a transfer

ASSUME RecordsAssumption ==
    MaxPieces \in Nat /\ PerFrame \in Nat \ {0, 1} /\ FilesChange \in BOOLEAN

(* The configuration is read line by line.  The factory file is read in     *)
(* blocks of 255 bytes, whatever its lines: only the last can be short or   *)
(* small enough to be sent, and a block that begins with a comment is one.  *)
ConfigurationFiles == BoundedSeq({"record", "comment", "short"}, MaxPieces)
FactoryFiles ==
    {s \in BoundedSeq({"record", "comment", "short", "block"}, MaxPieces) :
        \A i \in 1..Len(s) - 1 : s[i] \in {"comment", "block"}}
RecordFiles(x) == IF x = "configuration" THEN ConfigurationFiles ELSE FactoryFiles

VARIABLES
    exchange,   \* the exchange of this behaviour
    file,       \* pieces of its file, <<>> when there is none
    present,    \* the file exists
    recActive,  \* active_, which suppresses host traffic
    ready,      \* frame_data_size_ is not zero
    reply,      \* the last reply, or "none"
    \* The controller: what it was told, asked for and got.
    told, asked, got,
    \* History: the file changed under a transfer; it went undelivered.
    stale, lostFile

recVars == <<exchange, file, present, recActive, ready, reply, told, asked, got,
             stale, lostFile>>

RecTypeOK ==
    /\ exchange \in {"configuration", "factory"}
    /\ file \in RecordFiles(exchange) /\ present \in BOOLEAN
    /\ recActive \in BOOLEAN /\ ready \in BOOLEAN
    /\ reply \in {"none", "start", "geometry", "data", "silence", "cancel"}
    /\ told \in 0..MaxPieces /\ asked \in 0..told /\ got \subseteq 1..MaxPieces
    /\ stale \in BOOLEAN /\ lostFile \in BOOLEAN

RecInit ==
    /\ exchange \in {"configuration", "factory"}
    /\ file \in RecordFiles(exchange) /\ present \in BOOLEAN
    /\ ~present => file = <<>>
    /\ recActive = FALSE /\ ready = FALSE /\ reply = "none"
    /\ told = 0 /\ asked = 0 /\ got = {}
    /\ stale = FALSE /\ lostFile = FALSE

-----------------------------------------------------------------------------
(* eligible_record: neither short nor a comment.  The configuration's       *)
(* geometry counts the comments too.                                        *)
eligible == {"record", "block"}
counted == eligible \cup IF exchange = "configuration" THEN {"comment"} ELSE {}

Pieces(kinds) == {i \in DOMAIN file : file[i] \in kinds}

(* How many records of the file come before a place: its index in records.  *)
Before(p) == Cardinality({r \in Pieces(eligible) : r < p})

(* The reply is written, or fails and a cancel is written instead.          *)
Replies(kind) == reply' \in {kind, "cancel"}

(* A configuration that is missing is cancelled as well, and leaves what    *)
(* the exchange retains alone.                                              *)
RecStart ==
    /\ reply \in {"none", "cancel"}
    /\ recActive' = (present \/ recActive)
    /\ IF present THEN Replies("start") ELSE reply' = "cancel"
    /\ told' = 0 /\ asked' = 0 /\ got' = {} /\ stale' = FALSE
    /\ UNCHANGED <<exchange, file, present, ready, lostFile>>

(* A geometry that cannot be used, or a factory file that does not open, is *)
(* cancelled; a configuration that does not open reads as an empty one.     *)
RecGeometry(acceptable) ==
    /\ reply = "start"
    /\ IF acceptable /\ (exchange = "configuration" \/ present)
       THEN /\ ready' = TRUE /\ Replies("geometry")
            /\ told' = Cardinality(Pieces(counted))
       ELSE reply' = "cancel" /\ UNCHANGED <<ready, told>>
    /\ UNCHANGED <<exchange, file, present, recActive, asked, got, stale, lostFile>>

(* Mutant: the first frame also begins at its index.                         *)
SkipAlways(i) ==
    LET left == {r \in Pieces(eligible) : Before(r) >= i}
    IN  {{r \in left : Before(r) < i + n} :
            n \in {m \in 0..Cardinality(left) : m >= PerFrame \/ m = Cardinality(left)}}

(* The configuration records of frame i: they begin at record i, but the    *)
(* first frame at record 0, and are as many as fit.                         *)
ConfigurationRecords(i) ==
    LET skip == IF i <= 1 THEN 0 ELSE i
        left == {r \in Pieces(eligible) : Before(r) >= skip}
    IN  {{r \in left : Before(r) < skip + n} :
            n \in {m \in 0..Cardinality(left) : m >= PerFrame \/ m = Cardinality(left)}}

(* The factory record of frame i, unless it is too long to send.            *)
FactoryRecord(i) == {r \in Pieces(eligible) : Before(r) = i - 1 /\ file[r] # "block"}

Selections(i) ==
    IF exchange = "configuration" THEN ConfigurationRecords(i) ELSE {FactoryRecord(i)}

(* The controller asks for the next frame; nothing selected, no reply.  A   *)
(* file that cannot be read or memory that is short cancels.                *)
RecData ==
    /\ reply \in {"geometry", "data", "silence"} /\ asked < told
    /\ asked' = asked + 1
    /\ \/ \E records \in Selections(asked + 1) :
              IF ready /\ records # {}
              THEN reply' = "data" /\ got' = got \cup records
              ELSE reply' = "silence" /\ UNCHANGED got
       \/ reply' = "cancel" /\ UNCHANGED got
    /\ UNCHANGED <<exchange, file, present, recActive, ready, told, stale, lostFile>>

finish == recActive' = FALSE /\ ready' = FALSE /\ reply' = "none"

Undelivered == stale \/ got # Pieces(eligible)

(* The controller completes what it got in full; the factory file goes,     *)
(* whatever it holds by now, unless it cannot be removed.                   *)
RecComplete ==
    /\ reply = "data" /\ told > 0 /\ asked = told
    /\ exchange = "factory" => Cardinality(got) = told
    /\ finish
    /\ \/ /\ exchange = "factory" /\ present
          /\ present' = FALSE /\ file' = <<>>
          /\ lostFile' = (lostFile \/ Undelivered)
       \/ UNCHANGED <<present, file, lostFile>>
    /\ UNCHANGED <<exchange, told, asked, got, stale>>

RecCancel ==
    /\ reply # "none"
    /\ finish
    /\ UNCHANGED <<exchange, file, present, told, asked, got, stale, lostFile>>

(* A host uploads or changes the file.                                      *)
HostChanges(pieces) ==
    /\ FilesChange \/ reply = "none"
    /\ file' = pieces /\ present' = TRUE
    /\ stale' = (stale \/ reply # "none")
    /\ UNCHANGED <<exchange, recActive, ready, reply, told, asked, got, lostFile>>

RecNext ==
    \/ RecStart \/ RecData \/ RecComplete \/ RecCancel
    \/ \E acceptable \in BOOLEAN : RecGeometry(acceptable)
    \/ \E pieces \in RecordFiles(exchange) : HostChanges(pieces)

RecSpec == RecInit /\ [][RecNext]_recVars

-----------------------------------------------------------------------------
(* A controller that asks for as many frames as it was told of, none of     *)
(* them cancelled, has every record of the configuration: the frames        *)
(* overlap and leave none out (skip and the loop of handle_data).           *)
NoRecordSkipped ==
    exchange = "configuration" /\ reply \in {"data", "silence"} /\ asked = told =>
        Pieces(eligible) \subseteq got

(* Factory data disappears only after the controller got all of it          *)
(* (finish).                                                                *)
FactoryDataDelivered == ~lostFile

(* The controller has every record before a file is done with.              *)
RecordsDelivered == NoRecordSkipped /\ FactoryDataDelivered
=============================================================================
