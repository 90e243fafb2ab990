-------------------------------- MODULE Jsonl -------------------------------
(***************************************************************************)
(* A JSONL file as JsonlObservationStore and JsonlUsageStore write and     *)
(* read it.  append opens the file for appending, writes the document with *)
(* serde_json::to_writer, which issues a write for each token, and then    *)
(* the newline; nothing keeps two appends apart.  The writes of a document *)
(* are taken as two here, its head and its tail.                           *)
(*                                                                         *)
(* A file is the sequence of its lines, the last of which is still open.   *)
(***************************************************************************)
EXTENDS Naturals, SequencesExt

Piece(Document) == [document : Document, part : {"head", "tail"}]
File(Document) == Seq(Seq(Piece(Document))) \ { <<>> }

EmptyFile == << <<>> >>

(* OpenOptions::new().create(true).append(true)                             *)
BugOpened(file) == EmptyFile      \* mutant: truncate(true) for append(true)
Opened(file) == file

FirstPart(document) == [document |-> document, part |-> "head"]
SecondPart(document) == [document |-> document, part |-> "tail"]

Written(file, piece) == [file EXCEPT ![Len(file)] = Append(@, piece)]
Terminated(file) == Append(file, <<>>)

(* serde_json::from_str accepts a line that is one whole document: neither  *)
(* a part of one, nor two, nor an empty line.                               *)
Parses(line) == /\ Len(line) = 2
                /\ line = <<FirstPart(line[1].document), SecondPart(line[1].document)>>

(* lines() yields the open line too, unless it is empty.                    *)
Lines(file) == IF Last(file) = <<>> THEN Front(file) ELSE file

(* list and load stop with an error at the first line that does not parse.  *)
Readable(file) == \A i \in 1 .. Len(Lines(file)) : Parses(Lines(file)[i])

Documents(file) == [i \in 1 .. Len(Lines(file)) |-> Lines(file)[i][1].document]
=============================================================================
