------------------------------ MODULE MCStreams ------------------------------
(***************************************************************************)
(* The three readers of a file on the card, one at a time: a behaviour is  *)
(* that of one of them, and the others keep their initial states.          *)
(***************************************************************************)
EXTENDS FileDownload, Playback, PlayLineReader

VARIABLE part

MCLines == [f \in Files |-> IF f = "f" THEN 3 ELSE 2]

MCInit ==
    /\ part \in {"download", "play", "reader"}
    /\ DownloadInit /\ PlayInit /\ ReaderInit
    /\ part # "reader" => file = <<>> /\ source = CHOOSE s \in Sources : TRUE

MCNext ==
    /\ UNCHANGED part
    /\ \/ part = "download" /\ DownloadNext /\ UNCHANGED <<playVars, readerVars>>
       \/ part = "play" /\ PlayNext /\ UNCHANGED <<downloadVars, readerVars>>
       \/ part = "reader" /\ ReaderNext /\ UNCHANGED <<downloadVars, playVars>>

MCSpec == MCInit /\ [][MCNext]_<<part, downloadVars, playVars, readerVars>>

(* The variables of the three readers keep their types and bounds.          *)
StreamTypesOK == DownloadTypeOK /\ PlayTypeOK /\ ReaderTypeOK
=============================================================================
