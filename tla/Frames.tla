------------------------------- MODULE Frames -------------------------------
(***************************************************************************)
(* One connection's reader thread: how a byte stream that arrives in       *)
(* pieces becomes the frames of the control plane (serve.rs                *)
(* read_bounded_line and the loop around it).  What becomes of a frame     *)
(* that was forwarded is in ControlPlane.                                  *)
(***************************************************************************)
EXTENDS Naturals, SequencesExt

CONSTANTS
    Cap,    \* MAX_FRAME_BYTES
    Chunk,  \* the capacity of the BufReader
    Streams \* what clients may send before they close

\* A byte: newline, carriage return, one that is no UTF-8, any other.
Bytes == {"n", "r", "bad", "x"}

ASSUME FramesAssumption ==
    /\ Cap \in Nat /\ Chunk \in Nat \ {0}
    /\ Streams \subseteq Seq(Bytes)

VARIABLES
    sent,    \* all the client sends
    read,    \* how much of it has been read from the socket
    chunk,   \* what the BufReader holds
    buf,     \* the bytes of the frame so far
    frames,  \* the frames forwarded
    status   \* "reading", "closed" by the client, or "refused" by serve

readerVars == <<sent, read, chunk, buf, frames, status>>

ReaderTypeOK ==
    /\ sent \in Streams /\ read \in 0..Len(sent)
    /\ {chunk, buf} \subseteq Seq(Bytes)
    /\ frames \in Seq(Seq(Bytes \ {"n"}))
    /\ status \in {"reading", "closed", "refused"}

ReaderInit ==
    /\ sent \in Streams
    /\ read = 0 /\ chunk = <<>> /\ buf = <<>> /\ frames = <<>>
    /\ status = "reading"

\* while matches!(buf.last(), Some(b'\n' | b'\r')) pop
Trim(line) ==
    LET kept == {k \in DOMAIN line : line[k] \notin {"n", "r"}}
        last == CHOOSE k \in kept \cup {0} : \A j \in kept : j <= k
    IN  SubSeq(line, 1, last)

\* A whole line: forwarded, unless it is no UTF-8.
Finish(line) ==
    /\ buf' = <<>>
    /\ IF Contains(line, "bad")
       THEN status' = "refused" /\ UNCHANGED frames
       ELSE frames' = Append(frames, Trim(line)) /\ UNCHANGED status

\* Mutant: the cap is off by one.
TooLongByOne(bytes) == Len(bytes) >= Cap

TooLong(bytes) == Len(bytes) > Cap

\* Mutant: the whole chunk is consumed with its first line.
RestLost(k) == <<>>

\* consume(pos + 1): the rest of the chunk is the start of the next frame.
Rest(k) == SubSeq(chunk, k + 1, Len(chunk))

\* fill_buf: as much as has arrived, at least one byte.
Fill(k) ==
    /\ status = "reading" /\ chunk = <<>>
    /\ k \in 1..Chunk /\ read + k <= Len(sent)
    /\ chunk' = SubSeq(sent, read + 1, read + k)
    /\ read' = read + k
    /\ UNCHANGED <<sent, buf, frames, status>>

ConsumeLine ==
    /\ status = "reading" /\ Contains(chunk, "n")
    /\ LET k == SelectInSeq(chunk, LAMBDA b : b = "n")
       IN  Finish(buf \o SubSeq(chunk, 1, k)) /\ chunk' = Rest(k)
    /\ UNCHANGED <<sent, read>>

ConsumePart ==
    /\ status = "reading" /\ chunk # <<>> /\ ~Contains(chunk, "n")
    /\ buf' = buf \o chunk /\ chunk' = <<>>
    /\ status' = IF TooLong(buf') THEN "refused" ELSE status
    /\ UNCHANGED <<sent, read, frames>>

\* End of file: what is left without a newline is a frame as well.
EndOfFile ==
    /\ status = "reading" /\ chunk = <<>> /\ read = Len(sent)
    /\ IF buf = <<>> THEN status' = "closed" /\ UNCHANGED <<buf, frames>>
                     ELSE Finish(buf)
    /\ UNCHANGED <<sent, read, chunk>>

ReaderNext == (\E k \in 1..Chunk : Fill(k)) \/ ConsumeLine \/ ConsumePart \/ EndOfFile

ReaderSpec == ReaderInit /\ [][ReaderNext]_readerVars

-----------------------------------------------------------------------------
(* Properties *)

\* The lines of a stream, read with no regard to how it arrives: one more byte
\* ends the last line or is part of it.
Grown(lines, b) ==
    IF b = "n" THEN Append(lines, <<>>)
               ELSE [lines EXCEPT ![Len(lines)] = Append(@, b)]

Lines(stream) ==
    LET split == FoldLeft(Grown, <<<<>>>>, stream)
    IN  IF Last(split) = <<>> THEN Front(split) ELSE split

\* The frames forwarded are the client's lines, whole, once each and in order,
\* whatever the pieces they came in; at an orderly end they are all of them
\* (serve.rs read_bounded_line: "never the whole chunk").
FramesAreLines ==
    LET lines == Lines(sent)
    IN  /\ frames = [k \in DOMAIN frames |-> Trim(lines[k])]
        /\ status = "closed" => Len(frames) = Len(lines)

\* A connection is cut only over a line longer than the cap or one that is no
\* UTF-8, never over a backlog of short ones; and however the client sends, it
\* holds little more than the cap (serve.rs MAX_FRAME_BYTES).
OnlyBadLinesRefused ==
    /\ status = "refused" =>
          LET line == Lines(sent)[Len(frames) + 1]
          IN  Len(line) > Cap \/ Contains(line, "bad")
    /\ Len(buf) <= Cap + Chunk
=============================================================================
