----------------------------- MODULE ProcmonLog -----------------------------
(***************************************************************************)
(* src/monitor/procmon.rs, the end of ProcmonMonitor::run: the exported    *)
(* log, a table of processes and a list of events, becomes the maps of the *)
(* changed files and registry keys.                                        *)
(*                                                                         *)
(* Every event of the log is taken in turn.  When a process id is tracked  *)
(* the chain of its process's parents is walked, one process per step, and *)
(* an event that is kept is matched as a registry or as a file operation.  *)
(* The details of an event arrive parsed, as the fields the code looks up. *)
(***************************************************************************)
EXTENDS ItemMetadata, Naturals, FiniteSets

CONSTANTS
    Paths,
    Tables,     \* the process lists a log may have: index -> [pid, parent]
    Events,     \* the events a log may have
    Settings,   \* MonitorOptions and TrackOptions: [flags, registry, pid, children]
    MaxEvents,  \* bound on the number of events of a log
    Nothing     \* None: no pid is tracked, no such detail, no further process

ASSUME ConstantsAssumption ==
    /\ \A t \in Tables : \A i \in DOMAIN t : {"pid", "parent"} \subseteq DOMAIN t[i]
    /\ \A t \in Tables : Nothing \notin DOMAIN t
    /\ \A s \in Settings : s.flags \subseteq Flags /\ s.registry \in BOOLEAN /\ s.children \in BOOLEAN
    /\ \A e \in Events : e.path \in Paths /\ e.fileName \in Paths \cup {Nothing}

VARIABLES
    settings,   \* options and track_options
    table,      \* proc_map
    pc,         \* "load", "next", "walk", "match", "done", "failed"
    event,      \* the event at hand
    at,         \* pid_matches: process, the index of it
    files, keys,    \* the maps of the result
    visited,    \* history: the processes walked over for this event
    seen        \* history: the events taken so far

vars == <<settings, table, pc, event, at, files, keys, visited, seen>>

-----------------------------------------------------------------------------
(* Which operation an event is: get_file_operation.                        *)

Row(to, from) == [to |-> to, from |-> from, requests |-> {}, names |-> {}]

\* The rows of procmon/filesystem.json for the operations that have an effect, in
\* their order, and one for those that have none.  A row's additional entries
\* that have a name all have the same requests; of the sixteen names of the row
\* of SetInformationFile some stand for others that are treated alike.
FileSystemOps ==
    << Row("FASTIO_MDL_WRITE_COMPLETE", "FASTIO_MDL_WRITE_COMPLETE"),
       Row("WriteFile", "FASTIO_PREPARE_MDL_WRITE"),
       Row("CreateFile", "IRP_MJ_CREATE"),
       Row("CreatePipe", "IRP_MJ_CREATE_NAMED_PIPE"),
       Row("ReadFile", "IRP_MJ_READ"),
       Row("WriteFile", "IRP_MJ_WRITE"),
       [to |-> "SetInformationFile", from |-> "IRP_MJ_SET_INFORMATION",
        requests |-> {"IRP_MJ_SET_INFORMATION", "FASTIO_SET_INFORMATION"},
        names |-> {"SetBasicInformationFile", "SetDispositionInformationFile",
                   "SetEndOfFileInformationFile", "SetLinkInformationFile",
                   "SetRenameInformationFile", "SetDispositionInformationEx",
                   "SetRenameInformationEx", "SetRenameInformationExBypassAccessCheck"}],
       Row("SetEAFile", "IRP_MJ_SET_EA"),
       Row("CreateMailSlot", "IRP_MJ_CREATE_MAILSLOT") >>

Unrecognised == "unrecognised"

\* Mutant: a request that came the fast way is not looked at.
RowNameIrpOnly(row, operation, type) ==
    IF operation = row.to THEN row.to
    ELSE IF operation \in row.names THEN operation
    ELSE IF operation = row.from THEN (IF type \in row.names THEN type ELSE row.to)
    ELSE Unrecognised

\* A row knows an operation by its new name, by one of its detailed names, by one
\* of its requests together with a detailed name for type, or by its old name.
RowName(row, operation, type) ==
    IF operation = row.to THEN row.to
    ELSE IF operation \in row.names THEN operation
    ELSE IF operation \in row.requests /\ type \in row.names THEN type
    ELSE IF operation = row.from THEN row.to
    ELSE Unrecognised

\* The first row that knows it.
FileOperation(operation, type) ==
    LET knows == {n \in DOMAIN FileSystemOps :
                     RowName(FileSystemOps[n], operation, type) # Unrecognised}
    IN  IF knows = {} THEN Unrecognised
        ELSE RowName(FileSystemOps[CHOOSE n \in knows : \A m \in knows : n <= m], operation, type)

-----------------------------------------------------------------------------
(* What an operation does to its item: registry_matches and file_matches.  *)

RegistryOps == {"RegOpenKey", "RegCreateKey", "RegSetValue", "RegDeleteKey", "RegDeleteValue",
                "RegRenameKey", "RegSetKeySecurity"}

RegistryFlags(e) ==
    CASE e.operation = "RegCreateKey" /\ e.outcome = "REG_CREATED_NEW_KEY" -> {"created"}
      [] e.operation = "RegSetValue"                          -> {"created", "modified"}
      [] e.operation \in {"RegDeleteKey", "RegDeleteValue"}   -> {"deleted"}
      [] e.operation = "RegRenameKey"                         -> {"renamed"}
      [] e.operation = "RegSetKeySecurity"                    -> {"modified"}
      [] OTHER                                                -> NoFlags

TargetedRenames == {"SetRenameInformationEx", "SetRenameInformationExBypassAccessCheck"}

FileFlags(operation, e) ==
    CASE operation = "CreateFile" /\ e.outcome = "Created"     -> {"created"}
      [] operation = "CreateFile" /\ e.outcome = "Superseded"  -> {"created", "deleted"}
      [] operation = "CreateFile" /\ e.outcome = "Overwritten" -> {"modified"}
      [] operation \in {"CreatePipe", "CreateMailSlot"}        -> {"created"}
      [] operation \in {"FASTIO_MDL_WRITE_COMPLETE", "WriteFile", "SetEAFile",
                        "SetDispositionInformationFile", "SetDispositionInformationEx",
                        "SetEndOfFileInformationFile", "SetLinkInformationFile",
                        "SetRenameInformationFile"}            -> {"modified"}
      [] operation \in TargetedRenames                         -> {"renamed"}
      [] OTHER                                                 -> NoFlags

\* A match names the map, the path and the metadata that go together.
Match(map, path, meta) == [map |-> map, path |-> path, meta |-> meta]

\* The rename that names its target is the one that returns early, with the
\* target's path and `modify(options.renaming)`.
FileMatch(e) ==
    LET operation == FileOperation(e.operation, e.type)
    IN  IF operation \in TargetedRenames /\ e.fileName # Nothing
        THEN Match("files", e.fileName, IF "renamed" \in settings.flags THEN {"modified"} ELSE NoFlags)
        ELSE Match("files", e.path, FileFlags(operation, e) \cap settings.flags)

\* Mutant: registry events are matched whether or not they are asked for.
EventMatchUnasked(e) ==
    IF e.operation \in RegistryOps
    THEN Match("keys", e.path, RegistryFlags(e) \cap settings.flags)
    ELSE FileMatch(e)

\* The registry comes first, if it is tracked.
EventMatch(e) ==
    IF settings.registry /\ e.operation \in RegistryOps
    THEN Match("keys", e.path, RegistryFlags(e) \cap settings.flags)
    ELSE FileMatch(e)

-----------------------------------------------------------------------------
Init ==
    /\ settings \in Settings /\ table \in Tables
    /\ pc = "load"
    /\ event = Nothing /\ at = Nothing /\ visited = {} /\ seen = {}
    /\ files = [p \in Paths |-> NoFlags] /\ keys = [p \in Paths |-> NoFlags]

\* The table of processes is built; the tracked process id has to be in it.
LoadProcesses ==
    /\ pc = "load"
    /\ pc' = IF settings.pid = Nothing \/ \E i \in DOMAIN table : table[i].pid = settings.pid
             THEN "next" ELSE "failed"
    /\ UNCHANGED <<settings, table, event, at, files, keys, visited, seen>>

Known(i) == IF i \in DOMAIN table THEN i ELSE Nothing

\* The next event of the log: only a success counts.
NextEvent(e) ==
    /\ pc = "next" /\ Cardinality(seen) < MaxEvents
    /\ event' = e /\ seen' = seen \cup {e}
    /\ visited' = {}
    /\ at' = Known(e.process)
    /\ pc' = IF e.result # "SUCCESS" THEN "next"
             ELSE IF settings.pid = Nothing THEN "match" ELSE "walk"
    /\ UNCHANGED <<settings, table, files, keys>>

\* Mutant: a root, its own parent, is not recognised.
WalkParentsNoRoot ==
    /\ pc = "walk"
    /\ IF at = Nothing
       THEN pc' = "next" /\ UNCHANGED <<at, visited>>
       ELSE /\ visited' = visited \cup {at}
            /\ IF table[at].pid = settings.pid THEN pc' = "match" /\ UNCHANGED at
               ELSE IF ~settings.children THEN pc' = "next" /\ UNCHANGED at
               ELSE at' = Known(table[at].parent) /\ UNCHANGED pc
    /\ UNCHANGED <<settings, table, event, files, keys, seen>>

\* A turn of pid_matches: found, nowhere to go on, or on to the parent.
WalkParents ==
    /\ pc = "walk"
    /\ IF at = Nothing
       THEN pc' = "next" /\ UNCHANGED <<at, visited>>
       ELSE /\ visited' = visited \cup {at}
            /\ IF table[at].pid = settings.pid THEN pc' = "match" /\ UNCHANGED at
               ELSE IF ~settings.children \/ table[at].parent = at
               THEN pc' = "next" /\ UNCHANGED at
               ELSE at' = Known(table[at].parent) /\ UNCHANGED pc
    /\ UNCHANGED <<settings, table, event, files, keys, seen>>

MatchEvent ==
    /\ pc = "match"
    /\ pc' = "next"
    /\ LET m == EventMatch(event)
       IN  IF m.map = "keys"
           THEN keys' = MergeEntry(keys, m.path, m.meta) /\ UNCHANGED files
           ELSE files' = MergeEntry(files, m.path, m.meta) /\ UNCHANGED keys
    /\ UNCHANGED <<settings, table, event, at, visited, seen>>

\* The log has no further event.
Finish ==
    /\ pc = "next"
    /\ pc' = "done"
    /\ UNCHANGED <<settings, table, event, at, files, keys, visited, seen>>

Next ==
    \/ LoadProcesses \/ WalkParents \/ MatchEvent \/ Finish
    \/ \E e \in Events : NextEvent(e)

Spec == Init /\ [][Next]_vars

\* The analysis is one thread that never waits.
FairSpec == Spec /\ WF_vars(LoadProcesses) /\ WF_vars(WalkParents) /\ WF_vars(MatchEvent)

-----------------------------------------------------------------------------
(* The reference: who belongs to the tracked process, and what is reported.*)

\* A set of processes closed under "has as its parent".
ClosedUp(S) == \A j \in S : table[j].parent \in DOMAIN table => table[j].parent \in S

\* An ancestor of i, or i itself, has the tracked process id.
Descends(i) ==
    \A S \in SUBSET (DOMAIN table) :
        i \in S /\ ClosedUp(S) => \E j \in S : table[j].pid = settings.pid

Belongs(e) ==
    \/ settings.pid = Nothing
    \/ /\ e.process \in DOMAIN table
       /\ IF settings.children THEN Descends(e.process)
          ELSE table[e.process].pid = settings.pid

\* What is said of a file by the events that have a meaning for it, whichever way
\* Process Monitor spells them: by the readable name of an operation, by its
\* request, or by a request to set something with that something for type.
Says(e, spellings) == e.operation \in spellings

SaysSet(e, names) ==
    \/ e.operation \in names
    \/ e.type \in names /\ Says(e, {"IRP_MJ_SET_INFORMATION", "FASTIO_SET_INFORMATION"})

Opens(e)    == Says(e, {"CreateFile", "IRP_MJ_CREATE"})
Creates(e)  == \/ Opens(e) /\ e.outcome \in {"Created", "Superseded"}
               \/ Says(e, {"CreatePipe", "IRP_MJ_CREATE_NAMED_PIPE",
                           "CreateMailSlot", "IRP_MJ_CREATE_MAILSLOT"})
Replaces(e) == Opens(e) /\ e.outcome = "Superseded"
Writes(e)   == \/ Opens(e) /\ e.outcome = "Overwritten"
               \/ Says(e, {"WriteFile", "IRP_MJ_WRITE", "FASTIO_PREPARE_MDL_WRITE",
                           "FASTIO_MDL_WRITE_COMPLETE", "SetEAFile", "IRP_MJ_SET_EA"})
               \/ SaysSet(e, {"SetEndOfFileInformationFile", "SetLinkInformationFile"})
Disposes(e) == SaysSet(e, {"SetDispositionInformationFile", "SetDispositionInformationEx"})
RenamesOld(e) == SaysSet(e, {"SetRenameInformationFile"})
Renames(e)  == SaysSet(e, {"SetRenameInformationEx", "SetRenameInformationExBypassAccessCheck"})

\* The same of a key; whether a value that is set is new the log does not say.
SetsValue(e) == Says(e, {"RegSetValue"})
Keyed(e) ==
    {f \in Flags :
        \/ f = "created" /\ SetsValue(e)
        \/ f = "created" /\ Says(e, {"RegCreateKey"}) /\ e.outcome = "REG_CREATED_NEW_KEY"
        \/ f = "deleted" /\ Says(e, {"RegDeleteKey", "RegDeleteValue"})
        \/ f = "modified" /\ (SetsValue(e) \/ Says(e, {"RegSetKeySecurity"}))
        \/ f = "renamed" /\ Says(e, {"RegRenameKey"})}

\* The flag under which an event is filed is that of the option it falls under
\* (options.rs:16-28), with exceptions.  A file that is disposed of, and one that
\* is renamed in the old way, is filed as modified (procmon.rs:480-489).  Nothing
\* is told of FASTIO_WRITE, which no row knows for want of a name, nor of
\* SetBasicInformationFile, which has a row but no arm of the match.
Filed(e) ==
    {f \in Flags :
        \/ f = "created" /\ Creates(e)
        \/ f = "deleted" /\ Replaces(e)
        \/ f = "modified" /\ (Writes(e) \/ Disposes(e) \/ RenamesOld(e))
        \/ f = "renamed" /\ Renames(e)}

\* And a rename that names its target tells nothing of the file that was renamed,
\* and files the target as modified if renaming is tracked (497).
Targeted(e) == Renames(e) /\ e.fileName # Nothing

\* The flags an event gives an item of a map.
Told(e, map, path) ==
    IF map = "keys"
    THEN IF settings.registry /\ e.path = path THEN Keyed(e) \cap settings.flags ELSE NoFlags
    ELSE IF Targeted(e)
         THEN IF "renamed" \in settings.flags /\ e.fileName = path THEN {"modified"} ELSE NoFlags
         ELSE IF e.path = path THEN Filed(e) \cap settings.flags ELSE NoFlags

\* The events that count: the successful ones of the tracked process.
Counted == {e \in seen : e.result = "SUCCESS" /\ Belongs(e)}

Expected(map, path) == UNION {Told(e, map, path) : e \in Counted}

-----------------------------------------------------------------------------
(* Properties.                                                             *)

\* The values of the variables; above all, the registry keys only ever get
\* flags that the options track, and none when the registry is not tracked.
TypeOK ==
    /\ settings \in Settings /\ table \in Tables
    /\ pc \in {"load", "next", "walk", "match", "done", "failed"}
    /\ event \in Events \cup {Nothing} /\ at \in DOMAIN table \cup {Nothing}
    /\ files \in [Paths -> SUBSET Flags]
    /\ keys \in [Paths -> SUBSET (IF settings.registry THEN settings.flags ELSE NoFlags)]
    /\ visited \subseteq DOMAIN table /\ seen \subseteq Events

\* Whenever an event is dealt with, both maps hold exactly what the events so
\* far say: those of the tracked process and its descendants, however long the
\* chain of parents, and of no other process; and each of them the same, under
\* its own map, path and flags, in whichever way its operation is spelled.
MapsExact ==
    pc \in {"next", "done"} =>
        \A p \in Paths : files[p] = Expected("files", p) /\ keys[p] = Expected("keys", p)

\* The walk up the parents of a process comes to an end.
WalkEnds == pc = "walk" ~> pc \in {"next", "match"}

\* options.rs:19, "Tracks deletion of files and directories.", and 25, "Tracks the
\* renaming of files and directories.": with both options a log of a deletion and
\* a rename says of some file at least that it was deleted or renamed.
DeletionOrRenameTold ==
    /\ pc = "done" /\ {"deleted", "renamed"} \subseteq settings.flags
    /\ \E e \in Counted : Disposes(e)
    /\ \E e \in Counted : Targeted(e)
    => \E p \in Paths : files[p] \cap {"deleted", "renamed"} # NoFlags
=============================================================================
