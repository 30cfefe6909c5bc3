------------------------------ MODULE IndexFile ------------------------------
(***************************************************************************)
(* Building and publishing an index (month02_rag_agent: app.py, ingest.py, *)
(* indexer.py): load a document, split it, embed the chunks, write the     *)
(* index to a temporary file, sync it and put it in the place of the old   *)
(* one.  Builders are threads and processes with one output path; between  *)
(* any two of their system calls others run or the power fails.            *)
(***************************************************************************)
EXTENDS Integers, FiniteSets, FiniteSetsExt

CONSTANTS
    Builders,   \* those who call build_document_index
    InputOf     \* what each builds from: length of the document, chunk_size
                \* and overlap of the request

Lengths == [length : Nat \ {0}, size : Nat \ {0}, overlap : Nat]

ASSUME BuilderAssumption == /\ InputOf \in [Builders -> Lengths]
                            /\ {"nobody", "another"} \cap Builders = {}

VARIABLES
    index,      \* the file at the output path
    build       \* per builder: its place in build_document_index and its
                \* temporary file

indexVars == <<index, build>>

\* A file: who made it ("another": somebody with another model), whether all
\* of it has been written, and whether that is on the disk.  What the checks
\* of validate_index say of a file that was written whole is left out.
File == [by     : Builders \cup {"nobody", "another"},
         whole  : BOOLEAN,
         synced : BOOLEAN]
NoFile  == [by |-> "nobody", whole |-> FALSE, synced |-> TRUE]
OldFile == [by |-> "another", whole |-> TRUE, synced |-> TRUE]

Build == [pc   : {"out", "load", "write", "sync", "replace", "returned", "raised"},
          temp : File]
NoBuild == [pc |-> "out", temp |-> NoFile]

IndexTypeOK == /\ index \in File
               /\ build \in [Builders -> Build]

IndexInit == /\ index \in {NoFile, OldFile}
             /\ build = [b \in Builders |-> NoBuild]

-----------------------------------------------------------------------------
(* split_text.                                                             *)

Accepted(i) == i.overlap < i.size

\* A chunk that starts at s and reaches the end of the text is the last.
Reaches(s, i) == s + i.size >= i.length

Starts(i) ==
    LET turns == {n * (i.size - i.overlap) : n \in 0..(i.length - 1)}
    IN  {s \in turns : s < i.length /\ \A r \in turns : r < s => ~Reaches(r, i)}

\* The chunks as intervals [start, end) of the text.
Chunks(i) == {<<s, Min({s + i.size, i.length})>> : s \in Starts(i)}

-----------------------------------------------------------------------------
(* build_document_index.                                                   *)

GoTo(b, from, to) == /\ build[b].pc = from
                     /\ build' = [build EXCEPT ![b].pc = to]

Enter(b) == GoTo(b, "out", "load") /\ UNCHANGED index

\* load_text_file, split_text, embed_documents and build_index raise for a
\* bad overlap, and may because of the document (missing, empty, a blank
\* chunk).  Then NamedTemporaryFile, beside the output path, under a name of
\* its own.
NewFile(b) == [by |-> b, whole |-> FALSE, synced |-> FALSE]

OpensThePath(b) == GoTo(b, "load", "write") /\ index' = NewFile(b)   \* mutant
CreateTemp(b) ==
    /\ build[b].pc = "load"
    /\ Accepted(InputOf[b])
    /\ build' = [build EXCEPT ![b] = [pc |-> "write", temp |-> NewFile(b)]]
    /\ UNCHANGED index

\* json.dump and flush.
WriteTemp(b) ==
    /\ build[b].pc = "write"
    /\ build' = [build EXCEPT ![b].pc = "sync", ![b].temp.whole = TRUE]
    /\ UNCHANGED index

SkipsSync(b) == GoTo(b, "sync", "replace") /\ UNCHANGED index       \* mutant
SyncTemp(b) ==
    /\ build[b].pc = "sync"
    /\ build' = [build EXCEPT ![b].pc = "replace", ![b].temp.synced = TRUE]
    /\ UNCHANGED index

\* os.replace
Replace(b) ==
    /\ build[b].pc = "replace"
    /\ index' = build[b].temp
    /\ build' = [build EXCEPT ![b] = [pc |-> "returned", temp |-> NoFile]]

\* An exception: the temporary file is removed, if there is one.
RaiseInBuild(b) ==
    /\ build[b].pc \in {"load", "write", "sync", "replace"}
    /\ build' = [build EXCEPT ![b] = [pc |-> "raised", temp |-> NoFile]]
    /\ UNCHANGED index

BuildStep(b) ==
    CreateTemp(b) \/ WriteTemp(b) \/ SyncTemp(b) \/ Replace(b) \/ RaiseInBuild(b)

\* The result or the exception reaches the caller.
Over(b)   == build[b].pc \in {"returned", "raised"}
Return(b) == /\ Over(b)
             /\ build' = [build EXCEPT ![b] = NoBuild]
             /\ UNCHANGED index

\* What a power loss leaves of a file; temporary files are never loaded.
AfterPowerLoss(file) ==
    [file EXCEPT !.whole = @ /\ file.synced, !.synced = TRUE]

PowerFails == /\ index' = AfterPowerLoss(index)
              /\ build' = [b \in Builders |-> NoBuild]

-----------------------------------------------------------------------------
(* Properties.                                                             *)

\* The index at the output path is complete and on the disk at every moment,
\* whoever builds at the same time, fails half-way or is cut off by a power
\* loss: a reader finds the old one or a new one, never a part of one.
IndexIsWhole == index # NoFile => index.whole /\ index.synced

\* The chunks of a document cover it without a gap, each but the last has
\* chunk_size characters and overlaps the next by exactly overlap, and none
\* lies within another.
ChunksCoverTheDocument(i) ==
    /\ UNION {c[1]..(c[2] - 1) : c \in Chunks(i)} = 0..(i.length - 1)
    /\ \A c, d \in Chunks(i) : c[1] < d[1] => c[2] < d[2]
    /\ \A c \in Chunks(i) : c[2] < i.length =>
         /\ c[2] - c[1] = i.size
         /\ \E d \in Chunks(i) : d[1] = c[2] - i.overlap
=============================================================================
