----------------------------- MODULE Transcript ------------------------------
(***************************************************************************)
(* A session's transcript file: records appended one by one by writers that *)
(* may crash in the middle of one, and what read_transcript finds in it.    *)
(*                                                                         *)
(* What one write left in the file is a chunk.  A torn chunk is the         *)
(* beginning of a record, a split one ends inside a character of it, and an *)
(* unended one lacks only its newline.  None is repaired: what is appended  *)
(* next continues its line.                                                 *)
(***************************************************************************)
EXTENDS Integers, Sequences

Chunk(record, how) == [record |-> record, how |-> how]
Partial == {"torn", "split", "unended"}

\* JsonlTranscript.write
WriteRecord(file, record) == Append(file, Chunk(record, "whole"))

\* The file is not buffered: the system may take a part of the line only, and the count
\* of the bytes it took is dropped.
ShortWrites(file, record) == {Append(file, Chunk(record, how)) : how \in Partial}

\* The files a crash in the middle of write may leave.
TornWrites(file, record) == {file} \cup ShortWrites(file, record)

\* A chunk that begins a line.
BeginsLine(file, i) == i = 1 \/ file[i - 1].how = "whole"

\* A line that parses: one whole record, and at the end of the file also one that lacks
\* its newline.
Readable(file, i) ==
  /\ BeginsLine(file, i)
  /\ file[i].how = "whole" \/ (file[i].how = "unended" /\ i = Len(file))

\* read_transcript skips a line that does not parse.  But one that cannot be decoded
\* raises, and the reader gives none behind it.
Decodable(file, i) == \A j \in 1 .. i - 1 : file[j].how # "split"

\* The records that read_transcript finds, by their places in the file.
ReadTranscript(file) == {i \in DOMAIN file : Readable(file, i) /\ Decodable(file, i)}
==============================================================================
