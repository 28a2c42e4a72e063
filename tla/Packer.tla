------------------------------- MODULE Packer -------------------------------
(***************************************************************************)
(* src/packer.rs: write_out, one step per call of the system, against a    *)
(* file system whose files grow, are truncated, vanish and appear          *)
(* meanwhile, and a monitor that is asked twice which files have changed.  *)
(*                                                                         *)
(* A path is the sequence of its components.  What canonicalize makes of a *)
(* path (long names, links followed, a verbatim prefix) is a constant; that *)
(* it fails where there is no file is not.                                 *)
(***************************************************************************)
EXTENDS Integers, SequencesExt

CONSTANTS
    Drives,   \* the components that are drives, such as C: and \\?\C:
    Reserved,   \* the names that start with a dollar
    ZipName,    \* a name without the characters that are problematic in an archive
    Canonical,  \* what canonicalize makes of a path whose file is there
    Base,       \* MonitorOptions.path, a directory that is there
    Reports,    \* the paths a monitor may report
    Answers,    \* the sets of them that it may answer
    SizeLimit,  \* PackerOptions.size_limit
    InitialSizes, \* the file systems to begin with
    MaxSize,    \* bound on the size of a file
    MaxChanges  \* bound on the number of changes of the file system

Root == "root"

-----------------------------------------------------------------------------
(* Paths.                                                                  *)

\* A bare drive stands for its root directory.
WithRoot(p) == IF Len(p) = 1 /\ p[1] \in Drives THEN Append(p, Root) ELSE p

\* The components without `.` and `..`; the parent of a root is the root.
Lexical(p) ==
    LET Push(q, c) ==
            CASE c = "." -> q
              [] c = ".." -> IF q = <<>> \/ Last(q) \in Drives \cup {Root} THEN q ELSE Front(q)
              [] OTHER -> Append(q, c)
    IN  FoldLeft(Push, <<>>, p)

\* Packer::is_reserved_path
IsReservedPath(p) ==
    Len(p) >= 3 /\ p[1] \in Drives /\ p[2] = Root /\ p[3] \in Reserved

FileName(p) ==
    IF p = <<>> \/ Last(p) \in Drives \cup {Root, ".."} THEN "unknown_file" ELSE Last(p)

\* The base path is normalized in every call, and is there.
BasePath == Canonical[WithRoot(Base)]

\* Packer::create_zip_entry_path
ZipEntryPath(p) ==
    LET relative == IF IsPrefix(BasePath, p) THEN SubSeq(p, Len(BasePath) + 1, Len(p))
                    ELSE <<FileName(p)>>
    IN  <<"files">> \o [i \in DOMAIN relative |-> ZipName[relative[i]]]

Files == {Canonical[p] : p \in Reports}

\* A report is no bare drive; the system, too, takes `.` and `..` for what they
\* are in the path; and what canonicalize returns is its own canonical form.
ASSUME ConstantsAssumption ==
    /\ Answers \subseteq SUBSET Reports
    /\ SizeLimit \in Nat /\ MaxSize \in Nat /\ MaxChanges \in Nat
    /\ InitialSizes \subseteq [Files -> -1 .. MaxSize]
    /\ \A p \in Reports :
          /\ p \in DOMAIN Canonical /\ WithRoot(p) = p
          /\ Lexical(p) \in DOMAIN Canonical => Canonical[Lexical(p)] = Canonical[p]
    /\ \A p \in DOMAIN Canonical :
          Canonical[p] \in DOMAIN Canonical /\ Canonical[Canonical[p]] = Canonical[p]

-----------------------------------------------------------------------------
VARIABLES
    size,       \* the file system: how large a file is, or Absent
    changes,    \* how often it has changed
    moving,     \* the monitor resolves file ids anew in every answer
    reported,   \* what it answered, or will answer
    overwrite,  \* PackerOptions.overwrite
    output,     \* the file at PackerOptions.output, as in ArchiveWriter
    pc,         \* where write_out is
    unresolved, \* the reported paths not yet normalized
    listed,     \* the files of the metadata
    todo,       \* changed_files still to be packed
    current,    \* the file at hand: its path, the length it has and had, what was read,
                \* and as a history `lens`, the lengths it has had since it was measured
    entries,    \* the archive's entries for files
    churned,    \* history: files that appeared or vanished since the first answer
    settled,    \* history: files there and within the limit since the second answer
    refused     \* history: files that a call of the system failed on

filesystem == <<size, changes, churned, settled>>
monitor    == <<moving, reported>>
archive    == <<overwrite, output, entries>>
loop       == <<unresolved, listed, todo, current, refused>>
vars == <<filesystem, monitor, archive, loop, pc>>

Absent == -1

Exists(p) == p \in DOMAIN Canonical /\ size[Canonical[p]] # Absent

\* Packer::normalize_path
NormalizePath(p) == IF Exists(WithRoot(p)) THEN Canonical[WithRoot(p)] ELSE Lexical(WithRoot(p))

NoFile == [path |-> <<>>, file |-> <<>>, linked |-> FALSE, len |-> 0, measured |-> 0, read |-> 0,
           lens |-> {}]

Fitting == {f \in Files : size[f] # Absent /\ size[f] <= SizeLimit}

Init ==
    /\ size \in InitialSizes /\ changes = 0
    /\ moving \in BOOLEAN /\ reported \in Answers
    /\ overwrite \in BOOLEAN /\ output \in {"absent", "older"} /\ entries = {}
    /\ pc = "open"
    /\ unresolved = {} /\ listed = {} /\ todo = {} /\ current = NoFile
    /\ churned = {} /\ settled = {} /\ refused = {}

-----------------------------------------------------------------------------
(* The file system (external), from the moment the output is opened.       *)

FsOther ==
    /\ pc \notin {"open", "done", "failed"}
    /\ changes < MaxChanges /\ changes' = changes + 1
    /\ UNCHANGED <<monitor, archive, pc>>

\* A file that write_out has open changes its length for its handle as well.
Resize(f, n) ==
    /\ size' = [size EXCEPT ![f] = n]
    /\ current' = IF current.linked /\ current.file = f
                  THEN [current EXCEPT !.len = n, !.lens = IF pc = "copy" THEN @ \cup {n} ELSE @]
                  ELSE current
    /\ settled' = settled \cap {g \in Files : size'[g] # Absent /\ size'[g] <= SizeLimit}
    /\ FsOther /\ UNCHANGED <<unresolved, listed, todo, refused, churned>>

Grow(f) ==
    /\ size[f] # Absent /\ size[f] < MaxSize
    /\ Resize(f, size[f] + 1)

\* File::open shares the file with those who write to it, or truncate it.
Truncate(f) ==
    /\ size[f] # Absent
    /\ \E n \in 0 .. size[f] - 1 : Resize(f, n)

\* The handle of a file that is deleted goes on reading what there was.
Vanish(f) ==
    /\ size[f] # Absent
    /\ size' = [size EXCEPT ![f] = Absent]
    /\ current' = IF current.file = f THEN [current EXCEPT !.linked = FALSE] ELSE current
    /\ churned' = churned \cup {f} /\ settled' = settled \ {f}
    /\ FsOther /\ UNCHANGED <<unresolved, listed, todo, refused>>

Appear(f) ==
    /\ size[f] = Absent
    /\ \E n \in 0 .. MaxSize : size' = [size EXCEPT ![f] = n]
    /\ churned' = churned \cup {f}
    /\ FsOther /\ UNCHANGED <<loop, settled>>

-----------------------------------------------------------------------------
(* write_out.                                                              *)

\* Mutant: an existing output is opened whether or not it may be overwritten.
OpenOutputAnyway ==
    /\ pc = "open"
    /\ pc' = "askMetadata" /\ output' = "partial"
    /\ UNCHANGED <<filesystem, monitor, loop, overwrite, entries>>

OpenOutput ==
    /\ pc = "open"
    /\ overwrite \/ output = "absent"
    /\ pc' = "askMetadata" /\ output' = "partial"
    /\ UNCHANGED <<filesystem, monitor, loop, overwrite, entries>>

\* get_changed_files: a monitor that resolves ids may give another answer.
Ask ==
    /\ pc \in {"askMetadata", "askFiles"}
    /\ pc' = IF pc = "askMetadata" THEN "metadata" ELSE "files"
    /\ reported' \in IF moving THEN Answers ELSE {reported}
    /\ unresolved' = reported'
    /\ settled' = IF pc = "askFiles" THEN Fitting ELSE settled
    /\ UNCHANGED <<size, changes, churned, moving, archive, listed, todo, current, refused>>

\* Mutant: the metadata lists the paths as the monitor reports them.
NormalizeFilesOnly(p) ==
    /\ pc \in {"metadata", "files"} /\ p \in unresolved
    /\ unresolved' = unresolved \ {p}
    /\ IF pc = "metadata"
       THEN listed' = listed \cup {p} /\ UNCHANGED todo
       ELSE todo' = todo \cup {NormalizePath(p)} /\ UNCHANGED listed
    /\ UNCHANGED <<filesystem, monitor, archive, current, refused, pc>>

\* A turn of files_normalized, for the metadata or for the loop.
Normalize(p) ==
    /\ pc \in {"metadata", "files"} /\ p \in unresolved
    /\ unresolved' = unresolved \ {p}
    /\ IF pc = "metadata"
       THEN listed' = listed \cup {NormalizePath(p)} /\ UNCHANGED todo
       ELSE todo' = todo \cup {NormalizePath(p)} /\ UNCHANGED listed
    /\ UNCHANGED <<filesystem, monitor, archive, current, refused, pc>>

\* metadata.json is written, or all the changed files are known.
Normalized ==
    /\ pc \in {"metadata", "files"} /\ unresolved = {}
    /\ pc' = IF pc = "metadata" THEN "askFiles" ELSE "loop"
    /\ UNCHANGED <<filesystem, monitor, archive, loop>>

\* A reserved path, or a file that is there no longer.
Skip(p) ==
    /\ pc = "loop" /\ p \in todo
    /\ IsReservedPath(p) \/ ~Exists(p)
    /\ todo' = todo \ {p}
    /\ UNCHANGED <<filesystem, monitor, archive, unresolved, listed, current, refused, pc>>

\* File::open fails, and the loop goes on.
OpenFails(p) ==
    /\ pc = "loop" /\ p \in todo
    /\ ~IsReservedPath(p) /\ Exists(p)
    /\ todo' = todo \ {p}
    /\ refused' = refused \cup {Canonical[p]}
    /\ UNCHANGED <<filesystem, monitor, archive, unresolved, listed, current, pc>>

OpenFile(p) ==
    /\ pc = "loop" /\ p \in todo
    /\ ~IsReservedPath(p) /\ Exists(p)
    /\ todo' = todo \ {p}
    /\ pc' = "measure"
    /\ current' = [path |-> p, file |-> Canonical[p], linked |-> TRUE,
                   len |-> size[Canonical[p]], measured |-> 0, read |-> 0, lens |-> {}]
    /\ UNCHANGED <<filesystem, monitor, archive, unresolved, listed, refused>>

\* The file at hand is given up, and the next one is taken.
NextFile == pc' = "loop" /\ current' = NoFile

\* file_len, and from there on the copy.
Measure == current' = [current EXCEPT !.measured = current.len, !.lens = {current.len}]

\* Mutant: the archive is asked for a second entry of the same name.
StartEntryAgain ==
    /\ pc = "measure"
    /\ IF current.len > SizeLimit THEN NextFile
       ELSE pc' = "copy" /\ Measure
    /\ UNCHANGED <<filesystem, monitor, archive, unresolved, listed, todo, refused>>

\* Mutant: a file that is too large ends the loop.
StartEntryOrBreak ==
    /\ pc = "measure"
    /\ IF current.len > SizeLimit
       THEN NextFile /\ todo' = {}
       ELSE /\ UNCHANGED todo
            /\ IF \E e \in entries : e.name = ZipEntryPath(current.path) THEN NextFile
               ELSE pc' = "copy" /\ Measure
    /\ UNCHANGED <<filesystem, monitor, archive, unresolved, listed, refused>>

\* Mutant: the limit is compared with nothing.
StartEntryUnlimited ==
    /\ pc = "measure"
    /\ IF \E e \in entries : e.name = ZipEntryPath(current.path) THEN NextFile
       ELSE pc' = "copy" /\ Measure
    /\ UNCHANGED <<filesystem, monitor, archive, unresolved, listed, todo, refused>>

\* The open file is measured; the archive refuses an entry of the same name.
StartEntry ==
    /\ pc = "measure"
    /\ IF \/ current.len > SizeLimit
          \/ \E e \in entries : e.name = ZipEntryPath(current.path)
       THEN NextFile
       ELSE pc' = "copy" /\ Measure
    /\ UNCHANGED <<filesystem, monitor, archive, unresolved, listed, todo, refused>>

StartEntryFails ==
    /\ pc = "measure"
    /\ NextFile /\ refused' = refused \cup {current.file}
    /\ UNCHANGED <<filesystem, monitor, archive, unresolved, listed, todo>>

\* What was written so far is the entry: no more of it will come.
CloseEntry(whole) ==
    /\ NextFile
    /\ entries' = entries \cup
          {[name |-> ZipEntryPath(current.path), path |-> current.path, file |-> current.file,
            measured |-> current.measured, lens |-> current.lens, bytes |-> current.read,
            whole |-> whole]}

\* Mutant: one byte more than the file has.
CopyChunkPastEnd ==
    /\ pc = "copy" /\ current.read <= current.len
    /\ current' = [current EXCEPT !.read = @ + 1]
    /\ UNCHANGED <<filesystem, monitor, archive, unresolved, listed, todo, refused, pc>>

\* std::io::copy reads on until it finds the end of the file.
CopyChunk ==
    /\ pc = "copy" /\ current.read < current.len
    /\ current' = [current EXCEPT !.read = @ + 1]
    /\ UNCHANGED <<filesystem, monitor, archive, unresolved, listed, todo, refused, pc>>

CopyEnds ==
    /\ pc = "copy" /\ current.read >= current.len
    /\ CloseEntry(TRUE)
    /\ UNCHANGED <<filesystem, monitor, overwrite, output, unresolved, listed, todo, refused>>

\* The error is logged, and the entry stays with what it has.
CopyFails ==
    /\ pc = "copy"
    /\ CloseEntry(FALSE)
    /\ refused' = refused \cup {current.file}
    /\ UNCHANGED <<filesystem, monitor, overwrite, output, unresolved, listed, todo>>

Finish ==
    /\ pc = "loop" /\ todo = {}
    /\ pc' = "done" /\ output' = "complete"
    /\ UNCHANGED <<filesystem, monitor, loop, overwrite, entries>>

\* The calls whose `?` returns: the output, the monitor, metadata.json, the
\* length of an open file, the end of the archive.
Fails ==
    /\ \/ pc \in {"open", "askMetadata", "askFiles", "measure"}
       \/ pc = "metadata" /\ unresolved = {}
       \/ pc = "loop" /\ todo = {}
    /\ pc' = "failed"
    /\ UNCHANGED <<filesystem, monitor, archive, loop>>

-----------------------------------------------------------------------------
FileSystem == \E f \in Files : Grow(f) \/ Truncate(f) \/ Vanish(f) \/ Appear(f)

WriteOut ==
    \/ OpenOutput \/ Ask \/ Normalized \/ Finish \/ Fails
    \/ \E p \in Reports : Normalize(p)
    \/ \E p \in todo : Skip(p) \/ OpenFails(p) \/ OpenFile(p)
    \/ StartEntry \/ StartEntryFails \/ CopyChunk \/ CopyEnds \/ CopyFails

Next == FileSystem \/ WriteOut

Spec == Init /\ [][Next]_vars

-----------------------------------------------------------------------------
(* As a writer of an archive.                                              *)

Writer ==
    CASE pc = "open" -> "idle"
      [] pc = "done" -> "done"
      [] pc = "failed" -> "failed"
      [] OTHER -> "writing"

Abstract == INSTANCE ArchiveWriter WITH writer <- Writer

-----------------------------------------------------------------------------
(* Properties.                                                             *)

\* The values of the variables; the paths packed are normal forms of reports.
TypeOK ==
    /\ size \in [Files -> Absent .. MaxSize] /\ changes \in 0 .. MaxChanges
    /\ moving \in BOOLEAN /\ reported \in Answers /\ overwrite \in BOOLEAN
    /\ output \in {"absent", "older", "partial", "complete"}
    /\ pc \in {"open", "askMetadata", "metadata", "askFiles", "files", "loop", "measure",
               "copy", "done", "failed"}
    /\ unresolved \subseteq Reports
    /\ current.len \in Nat /\ current.measured \in Nat /\ current.read \in Nat
    /\ current.lens \subseteq Nat
    /\ pc = "copy" => \E n \in current.lens : current.read <= n
    /\ pc \in {"measure", "copy"} => ~IsReservedPath(current.path)
    /\ \A e \in entries : e.bytes \in Nat /\ ~IsReservedPath(e.path)
    /\ churned \subseteq Files /\ settled \subseteq Files /\ refused \subseteq Files

\* No entry is of a file that was larger than the limit when it was measured, and
\* an entry whose copy did not fail is no longer than the longest and no shorter
\* than the shortest that the file was from then on: it is as long as measured
\* unless the file grew or was truncated in between (packer.rs:115-143).
EntriesWithinLimit ==
    \A e \in entries :
        /\ e.measured <= SizeLimit /\ e.measured \in e.lens
        /\ \E n \in e.lens : e.bytes <= n
        /\ e.whole => \E n \in e.lens : e.bytes >= n

\* options.rs:123, "Changed files greater than this size will not be included":
\* no entry is larger than the limit.
NoLargerEntry == \A e \in entries : e.bytes <= SizeLimit

\* Two entries have two names and are of two files, unless the file appeared
\* or vanished while its paths were normalized (packer.rs:38-44 and 126-138).
NoFileTwice ==
    \A e1, e2 \in entries : e1 # e2 =>
        /\ e1.name # e2.name
        /\ e1.file # e2.file \/ e1.file \in churned

\* With a monitor whose answer is fixed, metadata.json lists every file that
\* has an entry, unless the file appeared or vanished since it was written.
EntriesListed ==
    ~moving => \A e \in entries : e.path \in listed \/ e.file \in churned

\* A finished archive holds all of every file reported that was there and
\* within the limit all the time, unless its path is reserved, a call of the
\* system failed on it, or another entry has its name: neither a file that
\* vanishes nor one that fails keeps the others out of the archive.
NothingForgotten ==
    pc = "done" =>
        \A p \in reported :
            \/ Canonical[p] \notin settled \ refused \/ IsReservedPath(Canonical[p])
            \/ \E e \in entries :
                  \/ e.file = Canonical[p] /\ e.whole
                  \/ e.name = ZipEntryPath(Canonical[p])

\* The output is never touched but by an open that may touch it, and it is a
\* complete archive exactly if write_out succeeds (packer.rs:66-74 and 148).
ImplementsWriter == Abstract!Spec
=============================================================================
