---------------------------- MODULE WinApiMonitor ----------------------------
(***************************************************************************)
(* src/monitor/winapi.rs over src/overlapped_future.rs: the        *)
(* monitor that reads directory changes with ReadDirectoryChangesExW.      *)
(*                                                                         *)
(* Three actors take steps:                                                *)
(*   - the client (main.rs), which calls start() once and stop() once and  *)
(*     then asks for the changed files;                                    *)
(*   - the task start() spawns, whose loop is split where another thread   *)
(*     can get in: after the future was reset, after the read was issued,  *)
(*     at the await, and before its records are merged;                    *)
(*   - the kernel (external), which completes, cancels or fails the read   *)
(*     in flight and queues the changes that find no read waiting.         *)
(***************************************************************************)
EXTENDS ItemMetadata, Naturals

CONSTANTS
    Paths,      \* the paths below options.path
    Events      \* the changes that may happen, each at most once

Actions == {"ADDED", "REMOVED", "MODIFIED", "RENAMED_OLD_NAME", "RENAMED_NEW_NAME"}

\* The FILE_NOTIFY_CHANGE_* bits the code sets.
Categories == {"CREATION", "FILE_NAME", "DIR_NAME", "LAST_WRITE", "SIZE"}

\* A change carries the category under which the file system announces it.
\* Names change under FILE_NAME or DIR_NAME, all else is a MODIFIED record.
ASSUME EventsAssumption ==
    /\ Events \subseteq [id : Nat, path : Paths, action : Actions, category : Categories]
    /\ \A e \in Events : e.action # "MODIFIED" <=> e.category \in {"FILE_NAME", "DIR_NAME"}

VARIABLES
    options,    \* MonitorOptions: the flags that are tracked
    client,     \* where the client is: "new", "running", "stopping", "stopped", "stopFailed"
    task,       \* where the spawned task is
    ret,        \* the task's BTreeMap
    status,     \* OverlappedFutureImpl.status
    io,         \* the request that the future's OVERLAPPED stands for
    cancelling, \* CancelIoEx was accepted for that request
    stray,      \* a request is in flight whose OVERLAPPED has been freed
    scratch,    \* the records in the task's buffer
    watching,   \* the handle's change queue exists (first read issued)
    queue,      \* changes queued on the handle
    overflowed, \* the queue overflowed since the last read
    happened,   \* history: the changes so far
    recorded,   \* history: those the handle was told about
    due,        \* history: those that a stopped monitor owes its caller
    lost,       \* history: those dropped by a queue overflow
    merged      \* history: those merged into ret

clientVars == <<options, client>>
futureVars == <<status, io, cancelling, stray>>
kernelVars == <<watching, queue, overflowed>>
history    == <<happened, recorded, due, lost, merged>>
vars == <<clientVars, task, ret, futureVars, scratch, kernelVars, history>>

-----------------------------------------------------------------------------
(* Which changes are asked for, and what they become.                      *)

\* Mutant: deletions ask for the names of files only.
NotifyChangeMaskFilesOnly ==
    (IF "created" \in options THEN {"CREATION", "FILE_NAME", "DIR_NAME"} ELSE {})
    \cup (IF "deleted" \in options THEN {"FILE_NAME"} ELSE {})
    \cup (IF "modified" \in options THEN {"LAST_WRITE", "SIZE"} ELSE {})
    \cup (IF "renamed" \in options THEN {"FILE_NAME", "DIR_NAME"} ELSE {})

\* WinApiMonitor::notify_change_mask
NotifyChangeMask ==
    (IF "created" \in options THEN {"CREATION", "FILE_NAME", "DIR_NAME"} ELSE {})
    \cup (IF "deleted" \in options THEN {"FILE_NAME", "DIR_NAME"} ELSE {})
    \cup (IF "modified" \in options THEN {"LAST_WRITE", "SIZE"} ELSE {})
    \cup (IF "renamed" \in options THEN {"FILE_NAME", "DIR_NAME"} ELSE {})

\* The flag each FILE_ACTION_* stands for.
FlagOf == {<<"created", "ADDED">>, <<"deleted", "REMOVED">>,
           <<"modified", "MODIFIED">>, <<"renamed", "RENAMED_NEW_NAME">>}

\* Mutant: the option is not consulted.
GetMetaUntracked(action) == {f \in Flags : <<f, action>> \in FlagOf}

\* WinApiMonitor::get_meta
GetMeta(action) == {f \in options : <<f, action>> \in FlagOf}

\* The kernel (external) announces a change under a category of the mask.
Reported(e) == e.category \in NotifyChangeMask

\* What the options promise to track.  A change of the creation time alone
\* is a MODIFIED record too, yet no modification of the file.
Tracked(e) == GetMeta(e.action) # NoFlags /\ e.category # "CREATION"

-----------------------------------------------------------------------------
Init ==
    /\ options \in SUBSET Flags
    /\ client = "new" /\ task = "unspawned"
    /\ ret = [p \in Paths |-> NoFlags]
    /\ status = "Pending" /\ io = "unissued" /\ cancelling = FALSE /\ stray = FALSE
    /\ scratch = {}
    /\ watching = FALSE /\ queue = {} /\ overflowed = FALSE
    /\ happened = {} /\ recorded = {} /\ due = {} /\ lost = {} /\ merged = {}

-----------------------------------------------------------------------------
(* The client.                                                             *)

\* start() spawns the task and returns; nothing has been asked of the kernel.
Start ==
    /\ client = "new"
    /\ client' = "running" /\ task' = "reset"
    /\ UNCHANGED <<options, ret, futureVars, scratch, kernelVars, history>>

\* `self.api.cancel()?`: CancelIoEx finds a request in flight or answers
\* ERROR_NOT_FOUND, and then stop() returns that error with the state taken.
StopCall ==
    /\ client = "running"
    /\ IF io = "pending"
       THEN client' = "stopping" /\ cancelling' = TRUE
       ELSE client' = "stopFailed" /\ UNCHANGED cancelling
    /\ UNCHANGED <<options, task, ret, status, io, stray, scratch, kernelVars, history>>

\* Mutant: the state becomes Stopped without waiting for the task.
StopJoinEarly ==
    /\ client = "stopping"
    /\ client' = "stopped"
    /\ UNCHANGED <<options, task, ret, futureVars, scratch, kernelVars, history>>

\* `handle.await` returns once the task has ended, well or badly.
StopJoin ==
    /\ client = "stopping" /\ task \in {"finished", "failed"}
    /\ client' = "stopped"
    /\ UNCHANGED <<options, task, ret, futureVars, scratch, kernelVars, history>>

-----------------------------------------------------------------------------
(* The task: one turn of its loop is read_changes() and the merge.         *)

\* Mutant: the status of the last read survives the reset.
ResetKeepsStatus ==
    /\ task = "reset"
    /\ task' = "issue"
    /\ io' = "unissued" /\ cancelling' = FALSE
    /\ stray' = (stray \/ io = "pending")
    /\ UNCHANGED <<clientVars, status, ret, scratch, kernelVars, history>>

\* OverlappedFuture::reset: the old request is cancelled, the result ignored,
\* and its OVERLAPPED dropped: a request still in flight then outlives it.
Reset ==
    /\ task = "reset"
    /\ task' = "issue"
    /\ status' = "Pending" /\ io' = "unissued" /\ cancelling' = FALSE
    /\ stray' = (stray \/ io = "pending")
    /\ UNCHANGED <<clientVars, ret, scratch, kernelVars, history>>

\* ReadDirectoryChangesExW.  A queue that overflowed completes the read with
\* no bytes, a queue with changes completes it with them, and an empty queue
\* leaves it in flight.
IssueRead ==
    /\ task = "issue"
    /\ task' = "await" /\ watching' = TRUE
    /\ io' = IF overflowed \/ queue # {} THEN "completed" ELSE "pending"
    /\ scratch' = queue /\ queue' = {} /\ overflowed' = FALSE
    /\ UNCHANGED <<clientVars, ret, status, cancelling, stray, history>>

\* ResetEvent or ReadDirectoryChangesExW fails at once: `?` ends the task.
RequestFails ==
    /\ task \in {"reset", "issue"}
    /\ task' = "failed"
    /\ UNCHANGED <<clientVars, ret, futureVars, scratch, kernelVars, history>>

\* OverlappedFuture::poll is ready when a status was stored or the request is
\* no longer in flight; otherwise it wakes itself and is polled again.
PollReady == status # "Pending" \/ io # "pending"

PollResult ==
    IF status # "Pending" THEN status
    ELSE IF io = "completed" THEN "Ok"
    ELSE IF io = "aborted" THEN "Aborted"
    ELSE "Error"

\* Mutant: an aborted read is retried like an empty one.
PollRetriesAborted ==
    /\ task = "await" /\ PollReady
    /\ status' = PollResult
    /\ task' = IF PollResult = "Ok" THEN "merge"
               ELSE IF PollResult = "Aborted" THEN "reset"
               ELSE "failed"
    /\ UNCHANGED <<clientVars, ret, io, cancelling, stray, scratch, kernelVars, history>>

\* `self.future.clone().await?` and the match on its error in the loop:
\* ERROR_OPERATION_ABORTED breaks out with the map, any other error returns.
PollFuture ==
    /\ task = "await" /\ PollReady
    /\ status' = PollResult
    /\ task' = IF PollResult = "Ok" THEN "merge"
               ELSE IF PollResult = "Aborted" THEN "finished"
               ELSE "failed"
    /\ UNCHANGED <<clientVars, ret, io, cancelling, stray, scratch, kernelVars, history>>

\* Mutant: `ret.insert(filename, meta)` in the place of the merge.
MergeOverwrites ==
    /\ task = "merge"
    /\ task' = "reset"
    /\ ret' = [p \in Paths |->
                 LET flags == UNION {GetMeta(e.action) : e \in {x \in scratch : x.path = p}}
                 IN  IF IsEmpty(flags) THEN ret[p] ELSE flags]
    /\ merged' = merged \cup scratch
    /\ scratch' = {}
    /\ UNCHANGED <<clientVars, futureVars, kernelVars, happened, recorded, due, lost>>

\* The records parse, and the loop over them merges those with a flag.
MergeRecords ==
    /\ task = "merge"
    /\ task' = "reset"
    /\ ret' = [p \in Paths |->
                 Merge(ret[p], UNION {GetMeta(e.action) : e \in {x \in scratch : x.path = p}})]
    /\ merged' = merged \cup scratch
    /\ scratch' = {}
    /\ UNCHANGED <<clientVars, futureVars, kernelVars, happened, recorded, due, lost>>

\* parse_records bails out, and the error ends the task.
ParseFails ==
    /\ task = "merge" /\ scratch # {}
    /\ task' = "failed"
    /\ UNCHANGED <<clientVars, ret, futureVars, scratch, kernelVars, history>>

-----------------------------------------------------------------------------
(* The kernel and the file system (external).                              *)

\* A change that is announced completes the read in flight (even one that is
\* being cancelled), joins the queue, or is dropped with the queue when the
\* queue has no room for it.
Announce(e) ==
    /\ recorded' = recorded \cup {e}
    /\ IF io = "pending"
       THEN /\ io' = "completed" /\ scratch' = {e}
            /\ UNCHANGED <<queue, overflowed, lost>>
       ELSE /\ overflowed' \in {overflowed, TRUE}
            /\ queue' = IF overflowed' THEN {} ELSE queue \cup {e}
            /\ lost' = IF overflowed' THEN lost \cup queue \cup {e} ELSE lost
            /\ UNCHANGED <<io, scratch>>

Change(e) ==
    /\ e \notin happened
    /\ happened' = happened \cup {e}
    /\ due' = IF watching /\ client = "running" /\ Tracked(e) THEN due \cup {e} ELSE due
    /\ IF watching /\ Reported(e)
       THEN Announce(e)
       ELSE UNCHANGED <<io, scratch, queue, overflowed, recorded, lost>>
    /\ UNCHANGED <<clientVars, task, ret, status, cancelling, stray, watching, merged>>

CompleteCancel ==
    /\ io = "pending" /\ cancelling
    /\ io' = "aborted"
    /\ UNCHANGED <<clientVars, task, ret, status, cancelling, stray, scratch, kernelVars, history>>

ReadFails ==
    /\ io = "pending"
    /\ io' = "failed"
    /\ UNCHANGED <<clientVars, task, ret, status, cancelling, stray, scratch, kernelVars, history>>

-----------------------------------------------------------------------------
Client == Start \/ StopCall \/ StopJoin
Task   == Reset \/ IssueRead \/ RequestFails \/ PollFuture \/ MergeRecords \/ ParseFails
Kernel == (\E e \in Events : Change(e)) \/ CompleteCancel \/ ReadFails

Next == Client \/ Task \/ Kernel

\* The task is polled again and again (it wakes itself), the kernel finishes
\* what it agreed to cancel, and a join sees the end of its task.  Nothing
\* forces a change to happen, a call to fail or the client to stop.
Fairness ==
    /\ WF_vars(Reset) /\ WF_vars(IssueRead) /\ WF_vars(PollFuture)
    /\ WF_vars(MergeRecords) /\ WF_vars(StopJoin)
    /\ WF_vars(CompleteCancel)

Spec == Init /\ [][Next]_vars

FairSpec == Spec /\ Fairness

-----------------------------------------------------------------------------
(* As a Monitor.                                                           *)

\* MonitorState, Stopped(Err(_)) counting as failed: its map is gone.
MonitorPhase ==
    CASE client = "new" -> "new"
      [] client = "running" -> "started"
      [] client = "stopping" -> "stopping"
      [] client = "stopped" /\ task = "finished" -> "stopped"
      [] OTHER -> "failed"

\* get_changed_files answers from the map of a task that finished.
Noted == IF MonitorPhase = "failed" THEN {} ELSE merged

Abstract == INSTANCE ChangeMonitor
                WITH Changes <- Events, phase <- MonitorPhase, noted <- Noted

-----------------------------------------------------------------------------
(* Properties.                                                             *)

\* The values of the variables; above all, the map never holds a flag that
\* the options do not track, whatever records the kernel sends.
TypeOK ==
    /\ options \in SUBSET Flags
    /\ client \in {"new", "running", "stopping", "stopped", "stopFailed"}
    /\ task \in {"unspawned", "reset", "issue", "await", "merge", "finished", "failed"}
    /\ ret \in [Paths -> SUBSET options]
    /\ status \in {"Pending", "Ok", "Aborted", "Error"}
    /\ io \in {"unissued", "pending", "completed", "aborted", "failed"}
    /\ cancelling \in BOOLEAN /\ stray \in BOOLEAN
    /\ watching \in BOOLEAN /\ overflowed \in BOOLEAN
    /\ \A changes \in {scratch, queue, happened, recorded, due, lost, merged} :
           changes \subseteq Events

\* The buffer and the OVERLAPPED belong to the kernel while a read is in
\* flight: the task never looks at the records before the read completed,
\* never leaves its loop or starts a new turn with a read in flight, and no
\* read outlives its OVERLAPPED (winapi.rs hands out raw pointers to both).
KernelOwnership ==
    /\ ~stray
    /\ io = "pending" => task = "await"
    /\ task = "merge" => io = "completed"

\* No change is duplicated or forgotten on its way from the kernel's queue
\* over the buffer into the map, except by an overflow, and the map says of
\* every path exactly what the merged changes say of it, tracked flags only.
Conservation ==
    /\ recorded = merged \cup scratch \cup queue \cup lost
    /\ merged \cap (scratch \cup queue \cup lost) = {}
    /\ scratch \cap (queue \cup lost) = {}
    /\ queue \cap lost = {}
    /\ \A p \in Paths :
          ret[p] = UNION {GetMeta(e.action) : e \in {x \in merged : x.path = p}}

\* A stop() that succeeded with a map has in it every change the options
\* track that happened between the first read and the call, except those the
\* kernel dropped: cancelling the read in flight loses nothing.
StoppedIsComplete ==
    client = "stopped" /\ task = "finished" => due \ lost \subseteq merged

\* stop() returns once its cancellation took hold.  Only a read that completes
\* in spite of being cancelled can keep it waiting: the task then issues the
\* next read, which nobody will cancel.
StopReturnsUnlessReadWon ==
    client = "stopping" /\ cancelling
        ~> client = "stopped" \/ (client = "stopping" /\ io = "completed")

\* This monitor keeps what the trait promises: above all nothing is merged any
\* more once stop() has returned, while a task whose state was taken by a
\* stop() that failed goes on unheard.
ImplementsMonitor == Abstract!Spec

\* main.rs:126 tells the user to "Press Enter to stop monitoring..." and hands
\* the monitor to the packer next: stop() of a running monitor is to succeed.
StopNeverFails == client # "stopFailed"
=============================================================================
