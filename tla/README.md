# dynstaller in TLA+

dynstaller records which files (and registry keys) an installer changes and
packs them into a zip archive. This directory holds a TLA+ development of its
core: modules translated from the Rust source, TLC configurations that check
them on small instances, and TLAPS proofs for every value of the constants.
Paths below are relative to the root of the repository.

## 1. The system

| component | source | state it keeps | operations | modelled in |
|---|---|---|---|---|
| monitor interface | `src/monitor/mod.rs` | `ItemMetadata`: four flags per path | `merge`, `is_empty`, the trait `Monitor` | `ItemMetadata`, `ChangeMonitor` |
| WinAPI monitor | `src/monitor/winapi.rs` | the task's map and buffer, `MonitorState` | `start`, `stop`, `get_changed_files`, `read_changes` | `WinApiMonitor` |
| overlapped future | `src/overlapped_future.rs` | status, OVERLAPPED, event | `reset`, `cancel`, `poll` | `WinApiMonitor` |
| USN monitor | `src/monitor/usn.rs` | `initial_usn`, `end_usn` | `start`, `stop`, `get_changed_files`, `read_range` | `UsnMonitor` |
| Procmon driver | `src/monitor/procmon.rs` | two tokens, a join handle, three futures, four child processes, temporary files | `start`, `stop`, `run` | `ProcmonMonitor` |
| Procmon log analysis | `src/monitor/procmon.rs`, `procmon/filesystem.json` | the maps of the result | the event loop, `pid_matches`, `registry_matches`, `file_matches`, `get_file_operation` | `ProcmonLog` |
| Procmon executable | `src/monitor/procmon.rs` | `Procmon64.exe` in the temporary directory | `resolve_procmon_path`, `download_procmon` | `SandboxHost` |
| utilities | `src/utils.rs` | - | `DropGuard`, `create_temp_path`, `resume_process` | `DropGuard` in `ProcmonMonitor`, `resume_process` in `Session` |
| packer | `src/packer.rs` | the archive being written | `write_out`, `files_normalized`, `normalize_path`, `is_reserved_path`, `create_zip_entry_path` | `Packer`, `ArchiveWriter` |
| sessions | `src/main.rs` | the launched process, the monitor | `GuestLaunch`, `GuestTrack` | `Session` |
| sandbox host | `src/wsb.rs`, `src/main.rs` | work folder, sandbox configuration | `HostLaunch`: `Hoster::new`, `run` | `SandboxHost` |
| buffer parsers | `winapi.rs`, `usn.rs` | an offset into a buffer | the two `parse_records` | `RecordParser` |
| command line, build script | `src/options.rs`, `build.rs` | - | - | no state; options are constants or initial values |

How they interact. `main.rs` makes one of the three monitors, calls `start`
once, lets the observed process run, calls `stop` once, and hands the monitor to
the packer, which calls `get_changed_files` twice. The modules of the monitors
therefore have a client that calls each of `start` and `stop` at most once, in this
order. The WinAPI and Procmon monitors spawn a task at `start` and join it at `stop`; the
USN monitor does all its work in `get_changed_files`. In the sandbox case a
second instance of the program runs in the guest and leaves its archive in a
shared folder. The modules are composed along the same lines:

```
 SandboxHost --extends--> Session --instance--> ChangeMonitor <--implemented by-- WinApiMonitor
                             |                                                    UsnMonitor
                             |                                                    ProcmonMonitor
                             +------instance--> ArchiveWriter <--implemented by-- Packer
```

What is hard about it: the asynchronous read that is cancelled from another
thread, with memory the kernel writes to; a journal that grows and is trimmed
while it is read; three futures and four processes that may each end at any
time; errors that leave somebody waiting; the question which changes end up
in the map; a packer whose files come, go, grow and shrink while it works; a host that
sees of its guest only a closed window and a folder; and a downloaded file that
outlives the run. `PROJECT.json` lists these hazards at their lines.

What makes each component correct:

* a monitor reports exactly the changes between `start` and `stop` that its
  options track, each on its path, and `start` and `stop` come to an end;
* the kernel and the task never use the buffer or the OVERLAPPED together;
* the Procmon driver exports only a complete log and cleans up after itself;
* the packer writes an archive that agrees with the map, and it can be told from
  the output whether it did;
* a session runs the process only while it is monitored and never leaves it
  suspended; the host gets the guest's archive or an error, and comes to an end;
* a buffer is parsed record for record, and never read past its end.

## 2. The modules

**`ItemMetadata`.** The struct of four booleans is the set of those that are
true, the options are the set of the flags they enable, and a
`BTreeMap<PathBuf, ItemMetadata>` is a total function with `NoFlags` for "no
entry" (every monitor tests `is_empty` before it touches its map).

**`WinApiMonitor`.** Three actors. The client: `Start`, `StopCall` (the call of
`cancel`), `StopJoin` (`handle.await`). The task, split where another thread can
get in: `Reset`, `IssueRead`, `PollFuture`, `MergeRecords`, and its failures
`RequestFails`, `ParseFails`. The kernel, external: `Change` (a change completes
the read in flight, joins the handle's queue, or overflows it),
`CompleteCancel`, `ReadFails`. `io` is the state of the request that the
current OVERLAPPED stands for, `status` is the future's. History variables
remember what happened, what was announced, merged, lost and owed.

**`UsnMonitor`.** The journal, external, is a sequence of records, one USN each,
with a first position that moves forward. A record carries the reasons that
accumulated since the file was opened; a repeated reason writes nothing; the
close writes a record with all of them and `CLOSE`; a deletion appears only in
such a last record. The monitor takes a step per system call: `Start`, `Stop`,
`QueryRange`, `ReadBatch` (a turn of `read_range`'s loop), `Aggregate` (the loop
over the records, which touches nothing shared), `ResolveFile` (one file id),
`Answer`. An id resolves to the path its file has at that moment, or fails to
with any of `Codes`, and then goes under the pair of the code and the bare name
in the record (`PathKey`): a file that is gone always fails, and one that is there
may, since `OpenFileById` without FILE_FLAG_BACKUP_SEMANTICS opens no directory
(usn.rs:455), others may have the file locked, and a path may be longer than the buffer
(466). `IoFails` stands for every other call that fails and everything that does
not parse, `get_file_path`'s `bail!`s (477-482) among it. The answer can be asked for
again, as the packer does.

**`ProcmonMonitor`.** `run` is one task of three futures under `try_join!`.
`SpawnCapture`/`CaptureDone` is `run_future`, `SpawnIdle`/`IdleDone` is
`wait_future`, `StopSeen`/`TerminateDone` is `cancel_future`; `JoinFails` is a
spawn that fails or a status that is an error, and `WaitFails` an error of
`cmd.wait().await` (procmon.rs:79), which may come at any time a future has a child:
either drops the other futures while the processes run on. `ExportWaitFails` is the same of the
export (171). `End` runs the `DropGuard`s on every way out; a log that the
capture still has open is not deleted, and one that the export has open may not be
(`MayBeHeld`). Process Monitor is external: the
capture comes up, dies, or terminates; the helpers exit with any status.

**`ProcmonLog`.** One event at a time: `NextEvent`, the walk up the parents one
process per step (`WalkParents`), and `MatchEvent`. `FileSystemOps` holds the rows of
`filesystem.json` whose operations have an effect, in their order, and one of those that
have none; of names that are treated alike some stand for the others. `RowName` is a
turn of the loop of `get_file_operation`: an operation is known by its readable name, by a
detailed name, by an IRP or FASTIO request together with a type, or by the old name of the row. Details such as
`OpenResult`, `Type` and `FileName` arrive parsed. The reference shares none
of this. `Belongs` says what a descendant is without any walk: every set of
processes that is closed under "has as its parent" and holds the process holds one
with the tracked id. `Told` says what an event tells of an item from its
meaning (`Creates`, `Writes`, `Disposes`, `Renames`, ...), whichever way it is
spelled, without rows, order or a first match; where the code
files an event under another option than its meaning calls for, the
reference says so with the line.

**`ChangeMonitor`.** The trait as its users see it: `new`, `starting`,
`started`, `stopping`, `stopped` or `failed`, and what has been noted so far,
which only grows and is fixed once `stop` has returned. Each monitor has a
refinement mapping to it (`Abstract`, `ImplementsMonitor`). For the WinAPI
monitor `noted` is what was merged. The USN monitor reads only when
asked, yet notes each record when the journal gets it: `noted` is the range from
`initial_usn` to the end of the journal, later to `end_usn`. The Procmon monitor
notes all its events at once, when its capture writes no more.

**`ArchiveWriter`.** `write_out` as its callers see it: the output is opened (and
an older archive is gone), then finished or broken.

**`Packer`.** `write_out` one call at a time: `OpenOutput`, `Ask` (twice),
`Normalize` (a path of `files_normalized`), then for each file `Skip`,
`OpenFails` or `OpenFile`, `StartEntry` with the two reasons not to
pack it, `CopyChunk`, `CopyEnds`, `CopyFails`; `Fails` is every `?`. A path is
the sequence of its components; what `canonicalize` makes of it is a
constant, but it fails where there is no file. The file system, external,
grows, truncates, deletes and creates files meanwhile; an open handle goes on
reading a deleted file and sees a file grow or shrink under it, since
`File::open` shares it with writers. A history variable, `lens`, keeps the lengths the
file at hand has had since it was measured.

**`Session`.** `GuestLaunch` and `GuestTrack`, one action per call, with the
launched process as an actor that anybody may end, and `Fails` for every
`?`. The monitor's steps are `ChangeMonitor`'s and the packer's
`ArchiveWriter`'s, so that the invariants hold with each monitor. `Killed` is
the end of the program from outside.

**`SandboxHost`.** Extends `Session` with the host that prepares the guest's
folder: `MakeWorkFolder` to `WriteScript` are `Hoster::new`, with the search for
Process Monitor in between (`FindProcmon`, `CreateDownload`, `SaveDownload`,
`Verify`, `CopyProcmon`), `WriteConfiguration` to `FetchOutput` are `run`. The
executable may have any name that the work folder has already or will have, and then one
file replaces the other, in the order of the copies. The
sandbox, external, boots with the mapped folders, runs whatever
`dynstaller.exe` it finds there, and is closed by its guest or from
outside. `GuestVerifies` is the guest's own `ProcmonMonitor::new`, which
hashes the Process Monitor that it was given once more. `Again` runs the program once more, with the temporary directory as it
was left; `Rival` is another instance that downloads at the same time. A
session without a host is one of the initial states.

**`RecordParser`.** A turn of either loop per action: `NotificationTurn` and
`JournalTurn`, with the tests in the order of the code and the regions of the
buffer that the turn reads, `reads`. Sums of two `u32` are taken modulo `Width`.
A buffer is one the system laid out (`WellFormed`), or any bytes: then every
offset has any of `Headers`.

The `MC*` modules give constants to `WinApiMonitor`, `UsnMonitor`,
`ProcmonLog`, `Packer` and `RecordParser`; `ProcmonMonitor` has none and
`SandboxHost` one number, which its configurations give. The `*Proofs` modules
hold the proofs, and `SandboxHostLiveness` those of what comes to an end in
`SandboxHost`.

## 3. The runs

Passing runs:

| run | instance | question |
|---|---|---|
| `winapi` | 2 paths, 4 changes, all 16 sets of options | buffer ownership, conservation, completeness of `stop`, its return |
| `usn` | 2 files, 2 paths with one bare name, one error code, `MaxUsn` = 4 records, `Batch` = 2 | exact range, exact flags, exact paths, end of a call |
| `procmon` | no constants; 1 session | capture while started, complete export, cleanup, `start` and `stop` return |
| `proclog` | 4 process tables, 16 settings, 14 events, logs of `MaxEvents` = 3 | exact maps, end of the walk |
| `packer` | 4 reported paths of 3 files, `SizeLimit` = 1, `MaxChanges` = 3 | limit, no duplicates, nothing unlisted or forgotten, refinement |
| `sandbox` | sessions alone and under a host that runs twice, all settings, an executable of any of 5 names | monitored while it runs, success means an archive, the guest starts, nobody waits unnamed |
| `records` | laid out buffers of up to two records, nine lengths with any of the headers | reads stay inside, layouts are parsed, parsing ends |

The runs `winapi`, `usn` and `procmon` check `ImplementsMonitor` as well.

Properties worth a word:

* `KernelOwnership`: with a read in flight the task is at its await, and
  nothing in flight has lost its OVERLAPPED. It rests on the reset of `status`:
  with a stale `Ok` the loop would parse the buffer the kernel fills.
* `Conservation`: what the kernel announced is, without overlap, merged, in the
  buffer, queued, or lost to an overflow; and the map is the union of what the
  merged records say.
* `StoppedIsComplete`: cancelling the last read loses nothing, because a change
  that completes it is still delivered and a queued one would have completed it.
  It speaks of the time from the first read on: `start` returns before it
  (winapi.rs:254), and an earlier change is not recorded by anybody.
* `StopReturnsUnlessReadWon`: a cancelled read that completes with a change all
  the same leads to another read, which nobody cancels; and as only an aborted read
  ends the loop, `stop` then waits for ever, whatever changes come. The property
  names this as the only exception.
* `RangeExact`: the records worked on are `initial_usn .. end_usn - 1`, however
  often and late the answer is asked for.
* `PlainFilesExact`: the flags of a file that was not open at `start`, and whose
  reparse point nobody set, are the tracked ones of what happened to it
  (deletion aside, see below). Both conditions are needed: an open file brings older
  reasons along, and `REPARSE_POINT_CHANGE` excludes all later records of
  the same opening.
* `SettledPathsExact`: a file that is where it was at `stop`, and whose id was
  resolved, has its own entry, whatever becomes of the others meanwhile. The stand-in key made of an error code keeps a file whose id was not
  from taking another one's entry. Among themselves such files are not safe: two
  directories of one bare name fail with one code, and only the flags of one of them are
  reported (usn.rs:596-603). The property says that and no more of them.
* `StartedMeansCapturing`: from the return of `start` to the call of `stop` a capture
  writes its log, unless it ended by itself, and `run` is there to end it. The
  exception is a wait for a child that failed in between: `run` is over, the capture goes
  on, and it is nobody's any more.
* `NoLitter`: `run` removes what it made, however it ends, but for what a child that
  outlives it holds or still writes: the log of a capture after a failed join, the
  log and the xml of an export whose wait failed.
* `MapsExact`: after every event the two maps are what the reference says, however the
  event spells its operation. The reference has the places where the code departs from the
  options in plain sight; `proclog_kinds` measures two of them against the documentation.
* `ImplementsMonitor`: the three monitors, as different as they are, do what
  `ChangeMonitor` says; a failure is a step of its own after which nothing is
  answered.
* `EntriesWithinLimit`: a file is measured and then copied to its end. What was measured is
  within the limit; what is copied is as long as the file was at some time since,
  or in between two such lengths, so that an entry may be larger than the limit or smaller
  than measured (`packer_limit` shows the former against options.rs:123).
* `NoFileTwice`: a path is canonical only while its file is there. A file that
  appears or vanishes among the calls of `normalize_path` may get two names; it
  is the only way, and two different files never share an entry.
* `EntriesListed`: metadata and entries come from two answers. With the WinAPI
  and Procmon monitors the answers are the same and the property holds; with the USN
  monitor, whose paths are resolved anew, it does not (`moving`).
* `NothingForgotten`: one file's failure costs no other file its entry; two
  names that differ only in characters the archive cannot hold do, and the property says so.
* `RunsMonitored` and `OkMeansArchive`: the order of `main.rs`, in the
  presence of all its early returns.
* `ResumedUnlessFailed`: the process that was started suspended is resumed or
  ends, unless the program fails (main.rs:88 on: nobody ends the process), is
  killed, waits in `start` (the finding `procmon_start`), or `ResumeThread` itself
  failed, which utils.rs:51 does not look at: the session then waits for ever.
* `HostOkMeansArchive`: a host that returns `Ok` has a complete archive, unless
  the sandbox was closed by somebody while its guest was writing it.
* `GuestStarts`: an equivalence. The guest's session starts and finds its executable
  exactly if none of three things is so: the folder is shared (wsb.rs:112), the executable is called
  `dynstaller.exe` and replaces the program in the work folder (wsb.rs:121), or it is
  called `launch.ps1` and is replaced by the script. The first is a finding: under
  that option no guest ever finds its executable.
* `ProcmonSound`: the guest gets the verified Process Monitor, unless another
  instance truncates the file between hash and copy, or the executable is called
  `Procmon64.exe` and replaces it (wsb.rs:75 and 121); the guest never makes a monitor
  of anything else, since it hashes the file again (its session then fails, and the host
  waits); and an incomplete one
  stays in the temporary directory only after an interrupted download.
* `HostEnds`: names everything the host's wait hangs on (`GuestStuck`).
* `ReadsInside`: the pointer reads of both parsers, for arbitrary bytes. That an
  index into a slice may still panic after a sum wrapped around is in `TypeOK`.
* `LayoutsParsed`: the exception is real: a last notification whose name has
  one character ends before the padded struct, and the buffer is rejected
  (winapi.rs:71).
* `ParsingEnds`: but for a record of length zero, which the system never writes.

Runs that end in a violation, each of one sentence of the options' documentation
or of what the program tells its user:

| run | property | what the code does |
|---|---|---|
| `winapi_stop` | `StopNeverFails` | `stop` cancels when no read is in flight, gets ERROR_NOT_FOUND and returns it with the state taken (winapi.rs:258-260) |
| `usn_deletes` | `DeletesReported` | records with `CLOSE` are skipped, and a deletion is only in such a record (usn.rs:573-578) |
| `procmon_start` | `StartEnds` | `start` waits for a token that a failed `run` never cancels (procmon.rs:627) |
| `proclog_kinds` | `DeletionOrRenameTold` | a rename with a target is filed as `modify(options.renaming)` (procmon.rs:497), and a disposition, which is how files are deleted, as a modification (480, 489) |
| `packer_limit` | `NoLargerEntry` | a file is measured, grows, and is copied to its end (packer.rs:115-140) |

### Bounds

* `winapi`: four changes are one more than the places where a change can be at
  once (buffer, queue, map); the events include one whose category is announced
  under the creation option only, and a directory's removal.
* `usn`: a range of up to four records takes two reads of two, so that there are
  ranges that end inside a buffer, at its end, and buffers that reach past them;
  a file can be created, changed, renamed and closed, or renamed onto a name
  another one left. With one bare name for both paths and one code every pair of ids that
  fail to resolve meets under one key; more codes keep more of them apart.
* `proclog`: the tables hold a chain of three processes, a process beside it, a
  parent that is not in the log, one table without the tracked process; three
  events suffice for two of them to meet on a path with a third one in between. The
  events spell their operations in each of the ways that `RowName` tells apart, with and
  without a type, with and without a target.
* `packer`: three changes let a file vanish, come back and grow, or grow and be truncated during a copy; a limit of one
  with sizes up to two has files below, at and above it; the paths hold two
  names of one file, a name with `..`, a reserved one, and two files whose names
  look the same in the archive.
* `sandbox`: the second run (`MaxRuns` = 2) is the one that finds what the first left;
  what a third would find is nothing else, and the proofs hold for any number. The
  executable's name is each of the four that the host gives to files of its own, or another one.
* `records`: `Width` = 1024 stands for 2^32, so that a sum of two sizes can wrap
  around; the sizes of the structs are those of the Windows headers; the lengths
  lie around every size that the code compares with.
* The counterexamples of the violation runs are shorter than these bounds, and
  the safety properties named in section 5 are proved without them.

The runs say `CHECK_DEADLOCK FALSE` because all these systems do come to rest: a
session ends, a bounded journal is full, and in the cases named above `start`
or `stop` waits for ever.

### Fairness

* `WinApiMonitor`: the task's steps (the runtime polls a future that wakes
  itself), `StopJoin`, and the completion of an accepted cancellation. No
  fairness for changes, failures, or the client's calls.
* `UsnMonitor`: the steps of a call of `get_changed_files`, which waits for
  nobody. The file system owes nothing; new records do not keep the call from
  ending since its range is fixed.
* `ProcmonMonitor`: the steps of the futures and of `StartReturns`/`StopReturns`;
  helpers exit; a capture that starts comes up or dies; a terminated one ends. A
  capture nobody terminates may run for ever, and no wait has to fail.
* `ProcmonLog`, `RecordParser`: a single thread that never waits.
* `SandboxHost`: calls that do not wait return, in one way or the other; a call
  that waits returns once what it waits for has happened; the sandbox
  boots, and a system that shuts down goes down. No fairness for the launched
  process, the user, the monitor's own waiting, or a sandbox that is not told to
  end.
* `Packer` states none: it has no liveness property.

## 4. Findings

The five violation runs show two defects (`winapi_stop`, `procmon_start`) and four
disagreements with the documentation (`usn_deletes`, two in `proclog_kinds`,
`packer_limit`). A fifth one, the shared folder of wsb.rs:112, is shown by the passing
run `sandbox`: its `GuestStarts` says that no guest starts under that option. All are described
with their lines in `PROJECT.json`.

Weaknesses that a passing property states as its exception, because nothing in
the repository says otherwise:

* a short last notification makes `winapi.rs:71` reject the buffer (`LayoutsParsed`);
* a failed metadata query leaves a truncated archive, an older one being gone
  (packer.rs:73-77, in `ArchiveWriter` the step `Break`);
* an error in `main.rs` between spawn and resume leaves the process suspended
  (`ResumedUnlessFailed`);
* a guest that fails never shuts the sandbox down, and the host waits
  (main.rs:109, wsb.rs:215, `HostEnds`);
* file ids that do not resolve share a key if they share a code and a bare name, and
  overwrite each other's flags (usn.rs:596-603, `SettledPathsExact`);
* a failed wait for a child of the join leaves a capture that nobody can end, and a failed
  wait for the export its files (procmon.rs:79 and 171, `StartedMeansCapturing`, `NoLitter`);
* an old-style rename is filed as a modification, FASTIO_WRITE has no row that would
  know it, and SetBasicInformationFile has one but no effect (`Filed` in `ProcmonLog`);
* an executable called `Procmon64.exe` replaces the verified copy, the guest fails at the
  hash, and the host waits (wsb.rs:121, `ProcmonSound`, `HostEnds`);
* a sandbox closed by hand is taken for a finished one (wsb.rs:222, `HostOkMeansArchive`);
* an interrupted download makes every later run fail until somebody deletes the
  file (procmon.rs:337, `ProcmonSound`; the theorem `BrokenDownloadStays` says so of
  every later state).

Seen while reading, and checked by no run: the host replaces its output whatever
`--overwrite` says (wsb.rs:222-225); the flag `--children` sets `no_children`
(options.rs:60); an output inside of the monitored directory is itself among
the changed files of a later answer.

## 5. Proofs

The safety theorems have the form `Spec => []P`, or `Spec => ImplementsX` for the
refinements, from the assumptions on the constants that the modules name and
nothing else. Each is proved from one inductive invariant `IInv` of its proof
module, with a lemma or step per action. The liveness theorems and
`WalkClimbs` have a hypothesis besides, which is discussed with them.

### What holds throughout

* `WinApiMonitorProofs`: `TypeOK`, `KernelOwnership`, `Conservation`,
  `StoppedIsComplete`. The strengthening ties the state of the request to the
  place of the task (issued only at the await, with a pending status; aborted
  only on behalf of a `stop`), says where records can be (none in the buffer of a
  read that has not completed, none queued behind a read in flight), and that
  what is owed was announced and, behind an aborted read, is not queued. So when the
  task finishes, which it does only with an aborted read, all that is owed is merged
  or lost. The lemma `TrackedIsReported` says that `notify_change_mask` covers
  `get_meta`.
* `UsnMonitorProofs`: `TypeOK`, `RangeExact`, `PlainFilesExact`,
  `SettledPathsExact`. The strengthening for the range says that
  while the loop runs the records are those from `initial_usn` up to the cursor,
  that the positions are ordered, and that the range's end is `end_usn`, since
  the journal only grows. For the answers `AnswerInv` adds three facts. What
  happened to a file that was closed at `start` is said by a record of the span that
  is not excluded, and such a record says nothing else (`Told`); this needs
  that the reasons an open file has collected are all its own doing since `start`
  and none of them excludes the records to come (`Collected`). And nobody but the file
  itself has written at the key of a file that stays where it is (`KeysApart`), as
  a stand-in key is never a path, while at a stand-in key stand the flags of one of
  the files that failed to resolve and have it (`StandInsKept`).
* `ProcmonMonitorProofs`: `TypeOK`, `StartedMeansCapturing`,
  `ExportsEndedCapture`, `NoLitter`. The strengthening relates each
  future to its child, each child to the tokens, and the files on disk to the
  guards; in particular a capture only ends by itself or after `stop` was
  called, and `/WaitForIdle` has succeeded only with a capture up. A `run` that
  ended while the client tracks did so by a failed wait.
* `ProcmonLogProofs`: `TypeOK` and `MapsExact`, for every table of processes,
  cyclic ones included (the walk may then not end, but it never decides
  wrongly). The invariant of the walk: every process visited lacks the
  tracked id and has its parent among the visited or at hand, and the process
  at hand is in every closed set that has the event's process. So a hit
  is an ancestor, and when there is nowhere to go on the visited processes are
  a closed set without the id. That an event is filed as the reference tells it is the
  lemma `MatchTells`. As the two have no definition in common, it goes through the
  table: `RowsAre` says what each row makes of an operation, `FirstRow` and `NoRow` that any
  row that knows it will do and that what none knows is not recognised, and `FilesTold` compares the outcome with the meaning, spelling
  by spelling.

* Refinements: `ImplementsMonitorHolds` of each of the three monitors and
  `ImplementsWriterHolds` of the packer map initial states to initial states and
  every step to a step of the abstract module or a stutter, from the invariants above.
* `PackerProofs`: all five invariants and the refinement, for every file system,
  set of paths and limit. The strengthening says that a path to be packed
  is a normal form of a report, canonical unless its file was gone when it was
  asked for (`churned`), and that what was settled is still to come, at hand,
  packed, refused, or has lost its name to another entry; and that an open file's present
  length is among `lens` while it is copied, which is what a copy that meets the end of
  the file is measured by. The lemmas about paths
  (`normalize_path` of a report) are proved from the assumption on `Canonical`.
* `SandboxHostProofs`: `TypeOK`, `RunsMonitored`, `OkMeansArchive`,
  `HostOkMeansArchive`, `GuestStarts`, `ProcmonSound`, for any number of runs. The
  strengthening relates the host's place to what is in the folder, name by name and with
  what an executable of that name does to it, and the guest's place to the phases of
  the monitor, the writer and the process.
* `RecordParserProofs`: `TypeOK`, `ReadsInside`, `LayoutsParsed`, for all
  sizes, widths and buffers. The invariant: in a laid out buffer the offset
  is that of a record or the end, and the records parsed are those before it.

Three theorems are about what no run asks:

* `AnswersAgree` (USN): whatever flags an answer of `get_changed_files` gives the
  file ids, every later one gives them too, although the journal is read
  anew and may have been trimmed (then there is an error, not another answer). So
  the two answers the packer gets differ in paths alone, which is what
  `EntriesListed` makes an exception for. The argument: the flags are those of the
  range `initial_usn .. end_usn - 1` of the journal, and nothing rewrites it.
* `BrokenDownloadStays` (sandbox host): a part of Process Monitor left in the
  temporary directory, with no other one to be found, stays there and stays
  unverified in every later state: no run downloads again what is there already.
* `ComesToRest` (Procmon), see below.

### What comes to an end

These theorems have the form `FairSpec /\ []GuardsEnable => P` (in `SandboxHost`
`Spec` states the fairness itself). The provers cannot
look into `ENABLED`, so that "the guards of the action hold" does not give them
"the action is enabled". `GuardsEnable` says this and nothing else, one
conjunct for each fairness condition that is used: at the states named, `ENABLED
<<A>>_vars`. It is true in every reachable state because the effects of
these actions can always take place; TLC confirms it when it is added to the
invariants of `winapi`, `procmon` (whose module has no constants, so that this is
all of it) and `sandbox`. It is a hypothesis and not an assumption on a
constant, so every use of it can be seen in the statements. With `ENABLED` opaque
the rest is propositional temporal logic over action-level facts, which are
proved like those of an invariant.

* `StopReturns` (`StopReturnsUnlessReadWon`, for all paths, changes and options):
  an accepted cancellation is followed by the end of the read, of the
  task, and by the return of `stop`; the invariant is strengthened by what a
  finished or failed task implies, so that nobody else can leave the chain.
* `HostReturnsUnlessStuck` and `ProcessResumed` (`HostEnds`, `ResumedUnlessFailed`, for
  any number of runs): a session makes eleven calls. For each one the lemmas
  `CallPasses` and `HeldResumes` say that it leads to the next call or
  out of the session, that what it waits for does not go away, and that it
  waits for nothing but what `GuestStuck` or the property names. The theorems chain these
  facts. Behind a session that is over, `OverLeads`: either the system is told
  to halt, or the host waits for ever, which `GuestStuck` names.
* `StartReturnsHolds` and `StopReturnsHolds` of the Procmon monitor rest on
  `ComesToRest`: each step of `run` passes one of ten milestones, none of which is
  ever taken back, so that it takes only so many steps in whatever order the three futures
  are polled (`RunRests`, which needs no hypothesis); its helpers end; and a
  state at rest in which the client still waits is one that the properties name.
  For this `StopInv` says that a `/Terminate` that succeeded has ended the
  capture, since `stop` comes after a `start` that waited until it was up.

### Progress, and what is left to TLC

`CallReturns`, `WalkEnds` and `ParsingEnds` speak of loops that take as many
turns as there are records, processes or bytes. Their proof needs an induction over
that number whose statement is temporal, which the installed provers
cannot instantiate; TLC checks them. What can be proved is the other half of the
argument, that every turn takes the loop further:

* `CallsAdvance`: the cursor of `read_range` moves strictly towards an end that does not
  move, each turn over the ids leaves one id less, and the file system takes none
  of it back.
* `WalkClimbs`: with a rank that grows from child to parent, that is where no
  process is its own ancestor, the walk comes to no process twice. In a table
  with a cycle it would not end, and the theorem has this as its hypothesis.
* `TurnsAdvance`: every turn of a parser ends it or moves the offset up
  to at most the length, but for a journal record of no length and no payload, which
  the system never writes.

## 6. What is not modelled

* USN records of version 4 in the monitor (the code skips them), a journal that is
  deleted and created anew between calls (the hazard at usn.rs:370: what the
  system then answers to a read from an old position is not in the source), the
  deprecated `enum_*` functions, which nothing calls.
* The zip format, the JSON of the metadata but for its list of files, the XML
  of the sandbox configuration but for its mapped folders (vGPU, network, memory,
  the writable flag and the delay have no effect on what is modelled), the
  regular expression over details, and the XML of the Procmon log.
* In `RecordParser` the payload is a length: the characters of a name and the
  entries of the extents are not looked at by any test.
* The children of a launched process: `main.rs` waits for the process alone.
* `create_temp_path`: temporary names are taken to be distinct; between its test
  and the use of the name another process could take it (utils.rs:73).
* Calling `start` or `stop` twice, which `main.rs` never does.
* `options.rs` and `build.rs` keep no state.

## 7. Plan

All modules that were planned are written, and all properties of the passing runs
but the three named at the end of section 5 are stated by theorems. What could
be added:

1. Theorems about operators alone: that `Belongs` of `ProcmonLog` does not depend on
   which of its two definitions, by closed sets or by chains of parents, is
   taken; what `normalize_path` does when it is applied twice.
2. That a session in a sandbox implements a session alone, once the host has
   booted it.
3. A second journal in `UsnMonitor`, once it is known how USNs go on after a journal is
   replaced.
4. `Packer` over the detailed `UsnMonitor` instead of the set of `Answers`, to see
   which answers a moving file system really gives (`AnswersAgree` bounds
   them); and an output that is itself among the changed files.
5. `Session` with the detailed `ProcmonMonitor`, whose capture may die while the process
   runs.
6. `create_temp_path` with two instances.
