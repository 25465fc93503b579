--------------------------- MODULE PlayLineReader ---------------------------
(***************************************************************************)
(* How streamed playback turns the bytes of a file into controller lines:  *)
(* a reader that asks a source for chunks and returns one line for each    *)
(* logical line, shortened or collapsed to the controller's limits.  The   *)
(* source is one that obeys the interface ("line": a chunk ends after a    *)
(* line feed) or the one the target is built with ("block": fread).        *)
(***************************************************************************)
EXTENDS Integers, Sequences, SequencesExt

CONSTANTS
    Alphabet,   \* bytes of a file: "LF", "NUL", others
    MaxLength,  \* bound: length of a file
    ChunkSize,  \* maximum_chunk_size
    LineSize,   \* maximum_returned_line_size
    Sources     \* the sources there are: "line", "block"

ASSUME ReaderSizesAssumption ==
    MaxLength \in Nat /\ ChunkSize \in Nat \ {0} /\ LineSize \in 1..ChunkSize
ASSUME SourceAssumption == Sources \subseteq {"line", "block"} /\ "LF" \in Alphabet

VARIABLES
    source, \* how chunks are read; it does not change
    file,   \* the bytes of the file
    pos,    \* bytes consumed
    phase,  \* "first", "more" chunks of the same line, "end" or "failed"
    out     \* lines returned so far

readerVars == <<source, file, pos, phase, out>>

ReaderTypeOK ==
    /\ source \in Sources
    /\ file \in Seq(Alphabet) /\ Len(file) <= MaxLength
    /\ pos \in 0..Len(file)
    /\ phase \in {"first", "more", "end", "failed"}
    /\ out \in Seq(Seq(Alphabet))

ReaderInit ==
    /\ source \in Sources
    /\ file \in BoundedSeq(Alphabet, MaxLength)
    /\ pos = 0 /\ phase = "first" /\ out = <<>>

-----------------------------------------------------------------------------
Ahead == SubSeq(file, pos + 1, Len(file))

(* Where the byte b is first found in s, 0 when it is not.                  *)
Find(s, b) == SelectInSeq(s, LAMBDA c : c = b)

(* The bytes of the next chunk.                                             *)
read_chunk ==
    LET limit == IF Len(Ahead) < ChunkSize THEN Len(Ahead) ELSE ChunkSize
        bytes == SubSeq(Ahead, 1, limit)
        lf    == Find(bytes, "LF")
    IN  IF source = "block" \/ lf = 0 THEN bytes ELSE SubSeq(bytes, 1, lf)

(* feof after the chunk c: the source wanted more than there was.           *)
at_eof(c) ==
    /\ pos + Len(c) = Len(file) /\ Len(c) < ChunkSize
    /\ source = "block" \/ Find(c, "LF") = 0

observed_bytes(c) ==
    LET nul == Find(c, "NUL") IN IF nul = 0 THEN c ELSE SubSeq(c, 1, nul - 1)

completes_line(c) == at_eof(c) \/ Find(c, "LF") # 0

(* A line longer than the controller takes is cut and ended by a line feed. *)
limited(s) == IF Len(s) > LineSize THEN Append(SubSeq(s, 1, LineSize - 1), "LF") ELSE s

(* The reader returns a line; with it the caller learns of the end.         *)
Return(l, c) ==
    /\ out' = Append(out, l)
    /\ phase' = IF at_eof(c) THEN "end" ELSE "first"

(* The first chunk of a line; chunks that begin with NUL are skipped.       *)
ReadFirst ==
    LET c == read_chunk
    IN  /\ phase = "first" /\ c # <<>>
        /\ pos' = pos + Len(c)
        /\ IF Head(c) = "NUL" THEN UNCHANGED <<phase, out>>
           ELSE IF completes_line(c) THEN Return(limited(observed_bytes(c)), c)
           ELSE phase' = "more" /\ out' = out
        /\ UNCHANGED <<source, file>>

(* Mutant: the rest of a long line is taken for a line of its own.          *)
ReadMoreAnew ==
    /\ phase = "more" /\ Return(<<"LF">>, <<>>)
    /\ UNCHANGED <<source, file, pos>>

(* The rest of a line that did not fit in a chunk is thrown away.           *)
ReadMore ==
    LET c == read_chunk
    IN  /\ phase = "more"
        /\ pos' = pos + Len(c)
        /\ IF completes_line(c) THEN Return(<<"LF">>, c) ELSE UNCHANGED <<phase, out>>
        /\ UNCHANGED <<source, file>>

ReadAtEnd ==
    /\ phase = "first" /\ Ahead = <<>>
    /\ phase' = "end"
    /\ UNCHANGED <<source, file, pos, out>>

(* A read error; the line that was being read is lost.                      *)
ReadBroken ==
    /\ phase \in {"first", "more"}
    /\ phase' = "failed"
    /\ UNCHANGED <<source, file, pos, out>>

ReaderNext == ReadFirst \/ ReadMore \/ ReadAtEnd \/ ReadBroken

ReaderSpec == ReaderInit /\ [][ReaderNext]_readerVars

-----------------------------------------------------------------------------
(* A file falls into pieces that end at some of its places: those up to a   *)
(* place, the places in order, the k-th piece, and what the controller is   *)
(* to get of each: nothing but a line feed when it takes several chunks.    *)
EndsUpTo(ends, i) == Cardinality({j \in ends : j <= i})
InOrder(ends) ==
    [k \in 1..Cardinality(ends) |-> CHOOSE i \in ends : EndsUpTo(ends, i) = k]
Piece(ends, k) ==
    SubSeq(file, IF k = 1 THEN 1 ELSE InOrder(ends)[k - 1] + 1, InOrder(ends)[k])
OneChunk(l) == Len(l) < ChunkSize \/ (Len(l) = ChunkSize /\ "LF" \in Range(l))
Wanted(ends) ==
    [k \in DOMAIN InOrder(ends) |->
        IF OneChunk(Piece(ends, k)) THEN limited(Piece(ends, k)) ELSE <<"LF">>]

(* The logical lines end with a line feed.                                  *)
LineEnds == {i \in DOMAIN file : file[i] = "LF" \/ i = Len(file)}

(* What the reader takes for a line: a logical line when its source stops   *)
(* at a line feed; else all blocks up to the first that holds a line feed.  *)
StretchEnds ==
    IF source = "line" THEN LineEnds
    ELSE {i \in DOMAIN file :
             \/ i = Len(file)
             \/ i % ChunkSize = 0 /\ \E j \in i - ChunkSize + 1..i : file[j] = "LF"}

(* "Reads one logical line, consuming long-line suffixes through LF or      *)
(* EOF": of a text file without NUL bytes every logical line is returned,   *)
(* once and in order.                                                       *)
EveryLineOnce ==
    "NUL" \notin Range(file) =>
        IF phase = "end" THEN out = Wanted(LineEnds) ELSE IsPrefix(out, Wanted(LineEnds))

(* Whatever the source, the file is read whole, and what the reader takes   *)
(* for a line is returned once and in order, cut as a line is.  With blocks *)
(* that is a stretch of lines up to the end of a block, of which the cut    *)
(* may take whole lines; no stretch is left out, repeated or joined to the  *)
(* next (PlayLineReader::read, read_shared_play_chunk).                     *)
EveryStretchOnce ==
    "NUL" \notin Range(file) =>
        IF phase = "end" THEN out = Wanted(StretchEnds)
        ELSE IsPrefix(out, Wanted(StretchEnds))

(* What is returned fits the controller's line and has no NUL, whatever the *)
(* file holds.                                                              *)
FitsController ==
    \A k \in DOMAIN out : Len(out[k]) <= LineSize /\ "NUL" \notin Range(out[k])

(* What is read reaches the controller once, in a form it can take, and     *)
(* from a source that stops at a line feed that is every line.              *)
LinesArrive ==
    /\ EveryStretchOnce /\ FitsController
    /\ source = "line" => EveryLineOnce
=============================================================================
