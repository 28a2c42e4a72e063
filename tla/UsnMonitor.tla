----------------------------- MODULE UsnMonitor -----------------------------
(***************************************************************************)
(* src/monitor/usn.rs: the monitor that remembers two positions in the     *)
(* NTFS change journal and reads what lies between them afterwards.        *)
(*                                                                         *)
(* The journal is external.  It is modelled by what usn.rs uses of it: a   *)
(* log of records, one USN each, that only grows at the end (NextUsn) and  *)
(* is trimmed at the front (FirstUsn).  A record carries every reason that *)
(* accumulated since the file was opened; a reason that is already there   *)
(* writes no record; the close writes one with all of them and CLOSE.  A   *)
(* deletion is only ever written in such a final record.                   *)
(*                                                                         *)
(* The monitor takes one step per call of the system: the queries, each    *)
(* read of a buffer, each file id resolved.  The file system goes on       *)
(* changing in between.                                                    *)
(***************************************************************************)
EXTENDS ItemMetadata, Integers, Sequences, FiniteSets

CONSTANTS
    Files,      \* file ids; an id is never reused
    Names,      \* paths
    Bare(_),    \* the bare name of a path, all that a record tells of it
    Codes,      \* the error codes that an id may fail to resolve with
    Options,    \* MonitorOptions: the flags that are tracked
    InitialName, \* the files there are before the first record, and their paths
    Touches,    \* the reasons an open file may collect, besides its renaming
    Batch,      \* how many records fit the 64 KiB buffer
    MaxUsn      \* bound on the length of the journal

Unborn == "unborn"
Gone   == "gone"
Resolved == "resolved"

ASSUME ConstantsAssumption ==
    /\ Unborn \notin Names /\ Gone \notin Names
    /\ Resolved \notin Codes
    /\ InitialName \in [Files -> Names \cup {Unborn}]
    /\ \A f, g \in Files : InitialName[f] = InitialName[g] => f = g \/ InitialName[f] = Unborn
    /\ Options \subseteq Flags
    /\ Touches \subseteq {"HARD_LINK_CHANGE", "DATA_EXTEND", "DATA_OVERWRITE",
                        "DATA_TRUNCATION", "REPARSE_POINT_CHANGE"}
    /\ Batch \in Nat \ {0}
    /\ MaxUsn \in Nat

VARIABLES
    log, first,         \* the journal: log[usn], and FirstUsn
    open,               \* the reasons collected by a file since it was opened
    name,               \* where a file is
    pc,                 \* where the monitor and its caller are
    initialUsn, endUsn, \* UsnMonitor.initial_usn and end_usn, 0 for None
    rangeEnd,           \* read_range: range.end
    cursor,             \* read_range: input.StartUsn
    records,            \* read_range: records, by their USN
    ids,                \* get_changed_files: ids, the flags
    idName,             \* get_changed_files: ids, the bare names
    todo,               \* the ids still to be resolved
    paths,              \* get_changed_files: paths
    done,               \* history: what happened to a file between start and stop
    deletedFiles,       \* history: the files deleted between start and stop
    plain,              \* history: files not open at start and with no reparse point set
    moved,              \* history: files that got, changed or lost their path since stop
    outcome             \* history: how the ids of the last call were resolved

journal == <<log, first, open, name>>
range   == <<initialUsn, endUsn>>
reading == <<rangeEnd, cursor, records>>
answer  == <<ids, idName, todo, paths, outcome>>
history == <<done, deletedFiles, plain, moved>>
vars == <<journal, pc, range, reading, answer, history>>

Exists(f) == name[f] \in Names

NextUsn == Len(log) + 1

BareNames == {Bare(n) : n \in Names}

\* A path the map can be keyed by: the one a file id resolves to, or the
\* stand-in made of the error code and the name in the record.
PathKeys == [code : {Resolved}, name : Names] \cup [code : Codes, name : BareNames]

-----------------------------------------------------------------------------
(* What a record says: UsnMonitor::get_meta and EXCLUDE_MASK.              *)

Reasons ==
    {"FILE_CREATE", "HARD_LINK_CHANGE", "FILE_DELETE", "DATA_EXTEND", "DATA_OVERWRITE",
     "DATA_TRUNCATION", "RENAME_OLD_NAME", "RENAME_NEW_NAME", "REPARSE_POINT_CHANGE", "CLOSE"}

ReasonsOf ==
    [created  |-> {"FILE_CREATE", "HARD_LINK_CHANGE"},
     deleted  |-> {"FILE_DELETE", "HARD_LINK_CHANGE"},
     modified |-> {"DATA_EXTEND", "DATA_OVERWRITE", "DATA_TRUNCATION"},
     renamed  |-> {"RENAME_NEW_NAME"}]

ExcludeMask == {"CLOSE", "RENAME_OLD_NAME", "REPARSE_POINT_CHANGE"}

\* Mutant: the options are not consulted.
GetMetaUntracked(reasons) == {f \in Flags : ReasonsOf[f] \cap reasons # {}}

GetMeta(reasons) == {f \in Options : ReasonsOf[f] \cap reasons # {}}

\* The records of a file, among those read, that reach its entry of ids.
Counted(f) ==
    {u \in records : /\ log[u].file = f
                     /\ ~IsEmpty(GetMeta(log[u].reasons))
                     /\ log[u].reasons \cap ExcludeMask = {}}

\* The maps of get_changed_files before its loops.
NoIds   == [f \in Files |-> NoFlags]
NoNames == [f \in Files |-> Unborn]
NoPaths == [k \in PathKeys |-> NoFlags]
AllResolved == [f \in Files |-> Resolved]

-----------------------------------------------------------------------------
Init ==
    /\ log = <<>> /\ first = 1
    /\ open = [f \in Files |-> {}]
    /\ name = InitialName
    /\ pc = "new"
    /\ initialUsn = 0 /\ endUsn = 0
    /\ rangeEnd = 0 /\ cursor = 0 /\ records = {}
    /\ ids = NoIds /\ idName = NoNames /\ todo = {} /\ paths = NoPaths
    /\ done = NoIds /\ deletedFiles = {}
    /\ plain = {} /\ moved = {} /\ outcome = AllResolved

-----------------------------------------------------------------------------
(* The file system and its journal (external).                             *)

Record(f, reasons, n) == [file |-> f, reasons |-> reasons, name |-> Bare(n)]

Append2(r) == Len(log) + Len(r) <= MaxUsn /\ log' = log \o r

\* Between start and stop an operation counts, and after stop it moves files.
Happens(f, flags, moves) ==
    /\ done' = IF pc = "tracking" THEN [done EXCEPT ![f] = @ \cup flags] ELSE done
    /\ moved' = IF moves THEN moved \cup {f} ELSE moved

\* After an error main exits, and what happens then concerns nobody.
FsOther == pc # "error" /\ UNCHANGED <<first, pc, range, reading, answer>>

CreateFile(f, n) ==
    /\ name[f] = Unborn /\ \A g \in Files : name[g] # n
    /\ Append2(<<Record(f, {"FILE_CREATE"}, n)>>)
    /\ open' = [open EXCEPT ![f] = {"FILE_CREATE"}]
    /\ name' = [name EXCEPT ![f] = n]
    /\ Happens(f, {"created"}, TRUE)
    /\ FsOther /\ UNCHANGED <<deletedFiles, plain>>

TouchFile(f, reason) ==
    /\ Exists(f)
    /\ open' = [open EXCEPT ![f] = @ \cup {reason}]
    /\ IF reason \in open[f] THEN UNCHANGED log
       ELSE Append2(<<Record(f, open[f] \cup {reason}, name[f])>>)
    /\ Happens(f, {x \in Flags : reason \in ReasonsOf[x]}, FALSE)
    /\ plain' = IF reason = "REPARSE_POINT_CHANGE" THEN plain \ {f} ELSE plain
    /\ FsOther /\ UNCHANGED <<name, deletedFiles>>

RenameFile(f, n) ==
    /\ Exists(f) /\ \A g \in Files : name[g] # n
    /\ Append2(<<Record(f, open[f] \cup {"RENAME_OLD_NAME"}, name[f]),
                 Record(f, open[f] \cup {"RENAME_NEW_NAME"}, n)>>)
    /\ open' = [open EXCEPT ![f] = @ \cup {"RENAME_NEW_NAME"}]
    /\ name' = [name EXCEPT ![f] = n]
    /\ Happens(f, {"renamed"}, TRUE)
    /\ FsOther /\ UNCHANGED <<deletedFiles, plain>>

CloseFile(f) ==
    /\ Exists(f) /\ open[f] # {}
    /\ Append2(<<Record(f, open[f] \cup {"CLOSE"}, name[f])>>)
    /\ open' = [open EXCEPT ![f] = {}]
    /\ FsOther /\ UNCHANGED <<name, history>>

DeleteFile(f) ==
    /\ Exists(f)
    /\ Append2(<<Record(f, open[f] \cup {"FILE_DELETE", "CLOSE"}, name[f])>>)
    /\ open' = [open EXCEPT ![f] = {}]
    /\ name' = [name EXCEPT ![f] = Gone]
    /\ deletedFiles' = IF pc = "tracking" THEN deletedFiles \cup {f} ELSE deletedFiles
    /\ Happens(f, {}, TRUE)
    /\ FsOther /\ UNCHANGED plain

TrimJournal ==
    /\ pc # "error" /\ first < NextUsn
    /\ first' = first + 1
    /\ UNCHANGED <<log, open, name, pc, range, reading, answer, history>>

-----------------------------------------------------------------------------
(* start(), stop(), and a call of get_changed_files().                     *)

Start ==
    /\ pc = "new"
    /\ pc' = "tracking"
    /\ initialUsn' = NextUsn /\ endUsn' = 0
    /\ plain' = {f \in Files : open[f] = {}}
    /\ UNCHANGED <<journal, reading, answer, done, deletedFiles, moved>>

Stop ==
    /\ pc = "tracking"
    /\ pc' = "stopped"
    /\ endUsn' = NextUsn
    /\ moved' = {}
    /\ UNCHANGED <<journal, initialUsn, reading, answer, done, deletedFiles, plain>>

Lesser(a, b) == IF a < b THEN a ELSE b

\* Mutant: the range ends with the journal and not with stop().
QueryRangeToNow ==
    /\ pc \in {"stopped", "answered"}
    /\ rangeEnd' = NextUsn
    /\ cursor' = initialUsn /\ records' = {}
    /\ ids' = NoIds /\ idName' = NoNames /\ todo' = {} /\ paths' = NoPaths
    /\ outcome' = AllResolved
    /\ pc' = IF initialUsn < first THEN "error"
             ELSE IF initialUsn < rangeEnd' THEN "reading" ELSE "aggregate"
    /\ UNCHANGED <<journal, range, history>>

\* read_range up to its loop.  The packer calls get_changed_files twice.
QueryRange ==
    /\ pc \in {"stopped", "answered"}
    /\ rangeEnd' = Lesser(endUsn, NextUsn)
    /\ cursor' = initialUsn /\ records' = {}
    /\ ids' = NoIds /\ idName' = NoNames /\ todo' = {} /\ paths' = NoPaths
    /\ outcome' = AllResolved
    /\ pc' = IF initialUsn < first THEN "error"
             ELSE IF initialUsn < rangeEnd' THEN "reading" ELSE "aggregate"
    /\ UNCHANGED <<journal, range, history>>

\* Mutant: the records past the end of the range are kept.
ReadBatchKeepsTail ==
    /\ pc = "reading"
    /\ IF cursor < first
       THEN pc' = "error" /\ UNCHANGED reading
       ELSE LET next == Lesser(cursor + Batch, NextUsn)
            IN  /\ records' = records \cup (cursor .. (next - 1))
                /\ cursor' = next
                /\ pc' = IF next < rangeEnd THEN "reading" ELSE "aggregate"
                /\ UNCHANGED rangeEnd
    /\ UNCHANGED <<journal, range, answer, history>>

\* Mutant: `input.StartUsn = next_usn` is missing.
ReadBatchStays ==
    /\ pc = "reading"
    /\ IF cursor < first
       THEN pc' = "error" /\ UNCHANGED records
       ELSE LET next == Lesser(cursor + Batch, NextUsn)
                read == cursor .. (next - 1)
            IN  /\ records' = records \cup {u \in read : u < rangeEnd}
                /\ pc' = IF next <= rangeEnd THEN "reading" ELSE "aggregate"
    /\ UNCHANGED <<journal, range, rangeEnd, cursor, answer, history>>

\* A turn of read_range's loop.  FSCTL_READ_USN_JOURNAL fails when the cursor
\* was trimmed away, and else fills the buffer from the cursor on.
ReadBatch ==
    /\ pc = "reading"
    /\ IF cursor < first
       THEN pc' = "error" /\ UNCHANGED reading
       ELSE LET next == Lesser(cursor + Batch, NextUsn)
                read == cursor .. (next - 1)
            IN  /\ records' = records \cup
                     (IF next > rangeEnd THEN {u \in read : u < rangeEnd} ELSE read)
                /\ cursor' = next
                /\ pc' = IF next < rangeEnd THEN "reading" ELSE "aggregate"
                /\ UNCHANGED rangeEnd
    /\ UNCHANGED <<journal, range, answer, history>>

\* Mutant: `*entry_meta = metadata` in the place of the merge.
AggregateOverwrites ==
    LET last(f) == CHOOSE u \in Counted(f) : \A v \in Counted(f) : v <= u
    IN  /\ pc = "aggregate"
        /\ pc' = "resolving"
        /\ ids' = [f \in Files |-> IF Counted(f) = {} THEN NoFlags
                                   ELSE GetMeta(log[last(f)].reasons)]
        /\ idName' = [f \in Files |-> IF Counted(f) = {} THEN Unborn ELSE log[last(f)].name]
        /\ todo' = {f \in Files : Counted(f) # {}}
        /\ UNCHANGED <<journal, range, reading, paths, outcome, history>>

\* The loop over the records: flags are merged and the last name wins.
Aggregate ==
    /\ pc = "aggregate"
    /\ pc' = "resolving"
    /\ ids' = [f \in Files |-> UNION {GetMeta(log[u].reasons) : u \in Counted(f)}]
    /\ idName' = [f \in Files |->
                    IF Counted(f) = {} THEN Unborn
                    ELSE log[CHOOSE u \in Counted(f) : \A v \in Counted(f) : v <= u].name]
    /\ todo' = {f \in Files : Counted(f) # {}}
    /\ UNCHANGED <<journal, range, reading, paths, outcome, history>>

\* Where an entry goes: under the path of its file, or, when get_file_path
\* returned an error of the system, under its code and the name in the record.
PathKey(f, code) ==
    IF code = Resolved THEN [code |-> Resolved, name |-> name[f]]
    ELSE [code |-> code, name |-> idName[f]]

\* Mutant: an id that does not resolve is warned about and left out.
ResolveFileOrSkip(f) ==
    /\ pc = "resolving" /\ f \in todo
    /\ \E code \in Codes \cup (IF Exists(f) THEN {Resolved} ELSE {}) :
          /\ outcome' = [outcome EXCEPT ![f] = code]
          /\ paths' = IF code = Resolved THEN [paths EXCEPT ![PathKey(f, code)] = ids[f]] ELSE paths
    /\ todo' = todo \ {f}
    /\ UNCHANGED <<journal, pc, range, reading, ids, idName, history>>

\* A turn of the loop over ids, a HashMap: in any order.  An id whose file is
\* gone does not resolve, and one whose file is there may not either: the file
\* is a directory or locked, or its path is longer than the buffer.
ResolveFile(f) ==
    /\ pc = "resolving" /\ f \in todo
    /\ \E code \in Codes \cup (IF Exists(f) THEN {Resolved} ELSE {}) :
          /\ outcome' = [outcome EXCEPT ![f] = code]
          /\ paths' = [paths EXCEPT ![PathKey(f, code)] = ids[f]]
    /\ todo' = todo \ {f}
    /\ UNCHANGED <<journal, pc, range, reading, ids, idName, history>>

Answer ==
    /\ pc = "resolving" /\ todo = {}
    /\ pc' = "answered"
    /\ UNCHANGED <<journal, range, reading, answer, history>>

\* A DeviceIoControl fails, or what it answered, a record or the name of a
\* file, is malformed: `?` returns the error.
IoFails ==
    /\ \/ pc \in {"new", "tracking", "stopped", "reading"}
       \/ pc = "resolving" /\ todo # {}
    /\ pc' = "error"
    /\ UNCHANGED <<journal, range, reading, answer, history>>

-----------------------------------------------------------------------------
FileSystem ==
    \/ \E f \in Files, n \in Names : CreateFile(f, n) \/ RenameFile(f, n)
    \/ \E f \in Files, reason \in Touches : TouchFile(f, reason)
    \/ \E f \in Files : CloseFile(f) \/ DeleteFile(f)
    \/ TrimJournal

Monitor ==
    \/ Start \/ Stop \/ QueryRange \/ ReadBatch \/ Aggregate
    \/ (\E f \in Files : ResolveFile(f)) \/ Answer \/ IoFails

Next == FileSystem \/ Monitor

Spec == Init /\ [][Next]_vars

\* A call of get_changed_files, once made, runs on: it waits for nobody.
FairSpec ==
    /\ Spec
    /\ WF_vars(ReadBatch) /\ WF_vars(Aggregate)
    /\ WF_vars(\E f \in Files : ResolveFile(f)) /\ WF_vars(Answer)

-----------------------------------------------------------------------------
(* As a Monitor.                                                           *)

MonitorPhase ==
    CASE pc = "new" -> "new"
      [] pc = "tracking" -> "started"
      [] pc = "error" -> "failed"
      [] OTHER -> "stopped"

\* The positions of the records noted: while tracking, all since start(); then
\* those of the range; and for an answer, those it was really made of.
Noted ==
    CASE pc \in {"new", "error"} -> {}
      [] pc = "tracking" -> initialUsn .. Len(log)
      [] pc \in {"aggregate", "resolving", "answered"} -> records
      [] OTHER -> initialUsn .. (endUsn - 1)

Abstract == INSTANCE ChangeMonitor
                WITH Changes <- Nat, phase <- MonitorPhase, noted <- Noted

-----------------------------------------------------------------------------
(* Properties.                                                             *)

\* The values of the variables.
TypeOK ==
    /\ log \in Seq([file : Files, reasons : SUBSET Reasons, name : BareNames])
    /\ first \in 1 .. NextUsn
    /\ name \in [Files -> Names \cup {Unborn, Gone}]
    /\ open \in [Files -> SUBSET Reasons]
    /\ pc \in {"new", "tracking", "stopped", "reading", "aggregate", "resolving",
               "answered", "error"}
    /\ initialUsn \in 0 .. NextUsn /\ endUsn \in 0 .. NextUsn
    /\ rangeEnd \in 0 .. NextUsn /\ cursor \in 0 .. NextUsn
    /\ records \subseteq 1 .. Len(log)
    /\ ids \in [Files -> SUBSET Options] /\ paths \in [PathKeys -> SUBSET Options]
    /\ todo \subseteq Files /\ outcome \in [Files -> Codes \cup {Resolved}]

\* The records that get_changed_files works on are exactly those written
\* between start() and stop(), each of them, in every call of it, however far
\* the journal grew or was trimmed meanwhile (else the call fails).
RangeExact ==
    pc \in {"aggregate", "resolving", "answered"} => records = initialUsn .. (endUsn - 1)

\* The flags of a file that was not open at start() and whose reparse point
\* nobody set are the tracked ones of what happened to it between start() and
\* stop(), deletion apart: skipping the records of closes loses nothing, since
\* what they repeat was written before, and accumulated reasons add nothing.
PlainFilesExact ==
    pc \in {"resolving", "answered"} => \A f \in plain : ids[f] = done[f] \cap Options

\* A file that is where it was at stop() and whose id was resolved has its own
\* entry in the map, with its flags, whatever becomes of the others while the
\* ids are resolved one by one.  The flags of a file whose id was not are under
\* its bare name, unless another of that name failed with the same code later.
SettledPathsExact ==
    pc = "answered" =>
        \A f \in Files :
            /\ f \notin moved /\ Exists(f) /\ outcome[f] = Resolved =>
                  paths[[code |-> Resolved, name |-> name[f]]] = ids[f]
            /\ outcome[f] # Resolved =>
                  \E g \in Files :
                     /\ outcome[g] = outcome[f] /\ idName[g] = idName[f]
                     /\ paths[[code |-> outcome[f], name |-> idName[f]]] = ids[g]

\* A call of get_changed_files ends though the journal keeps growing.
CallReturns == pc = "reading" ~> pc \in {"answered", "error"}

\* This monitor keeps what the trait promises, though it keeps no map: what it
\* answers from, call after call, are the records it had seen go by at stop().
ImplementsMonitor == Abstract!Spec

\* options.rs:19, "Tracks deletion of files and directories.": a file that was
\* deleted between start() and stop() is reported deleted.
DeletesReported ==
    pc = "answered" /\ "deleted" \in Options =>
        \A f \in deletedFiles : "deleted" \in ids[f]
=============================================================================
