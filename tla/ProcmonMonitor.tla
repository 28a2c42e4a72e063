--------------------------- MODULE ProcmonMonitor ---------------------------
(***************************************************************************)
(* src/monitor/procmon.rs, ProcmonMonitor::run, start and stop: the        *)
(* monitor that drives Process Monitor, an external program, through four  *)
(* of its command lines:                                                   *)
(*   capture     /BackingFile <pml> /LoadConfig <pmc>, until it is ended    *)
(*   idle        /WaitForIdle, which answers once the capture is up         *)
(*   terminate   /Terminate, which ends the capture                         *)
(*   export      /OpenLog <pml> /SaveAs <xml>                               *)
(*                                                                         *)
(* The client calls start() and stop() once each.  The spawned task runs   *)
(* three futures under one try_join!, each an actor of its own here, and   *)
(* hears of the client through two cancellation tokens.                    *)
(***************************************************************************)
EXTENDS FiniteSets

TempFiles == {"pmc", "pml", "xml"}

\* A child process is not yet spawned, running, or has exited with a status.
Child == {"none", "running", "success", "failure"}

VARIABLES
    client,         \* "new", "starting", "tracking", "stopping", "stopped", "failed"
    startedSignal,  \* the token start() waits for
    stopSignal,     \* the token stop() cancels
    runEnd,         \* run_end_token
    task,           \* where run() is
    result,         \* what run() returned
    fRun, fWait, fCancel, \* the futures: "init", "child", "done"
    capture,        \* the capture: a Child, or "starting", or "terminating"
    idle, terminate, export, \* the other children
    disk,           \* the temporary files that exist
    guards,         \* the DropGuards alive in run(), by the file they delete
    whole           \* history: the capture has not ended but by a /Terminate

signals  == <<startedSignal, stopSignal, runEnd>>
futures  == <<fRun, fWait, fCancel>>
children == <<capture, idle, terminate, export>>
vars == <<client, signals, task, result, futures, children, disk, guards, whole>>

CaptureAlive == capture \in {"starting", "running", "terminating"}

Init ==
    /\ client = "new"
    /\ startedSignal = FALSE /\ stopSignal = FALSE /\ runEnd = FALSE
    /\ task = "unspawned" /\ result = "none"
    /\ fRun = "init" /\ fWait = "init" /\ fCancel = "init"
    /\ capture = "none" /\ idle = "none" /\ terminate = "none" /\ export = "none"
    /\ disk = {} /\ guards = {} /\ whole = TRUE

-----------------------------------------------------------------------------
(* The client.                                                             *)

\* start() spawns run() and waits for the token, for nothing else.
Start ==
    /\ client = "new"
    /\ client' = "starting" /\ task' = "resolve"
    /\ UNCHANGED <<signals, result, futures, children, disk, guards, whole>>

StartReturns ==
    /\ client = "starting" /\ startedSignal
    /\ client' = "tracking"
    /\ UNCHANGED <<signals, task, result, futures, children, disk, guards, whole>>

Stop ==
    /\ client = "tracking"
    /\ client' = "stopping" /\ stopSignal' = TRUE
    /\ UNCHANGED <<startedSignal, runEnd, task, result, futures, children, disk, guards, whole>>

\* `handle.await??`
StopReturns ==
    /\ client = "stopping" /\ task = "ended"
    /\ client' = IF result = "ok" THEN "stopped" ELSE "failed"
    /\ UNCHANGED <<signals, task, result, futures, children, disk, guards, whole>>

-----------------------------------------------------------------------------
(* run(): before and after the join.                                       *)

\* What a process that outlives run() may hold open of its log.
MayBeHeld ==
    IF capture \in {"running", "terminating"} THEN {{"pml"}}
    ELSE IF export = "running" THEN {{}, {"pml"}} ELSE {{}}

\* Mutant: the guard of the configuration is not bound and runs at once.
EndForgetsConfig(res) ==
    /\ task' = "ended" /\ result' = res
    /\ guards' = {}
    /\ \E held \in MayBeHeld : disk' = disk \ (guards \ (held \cup {"pmc"}))

\* run() returns, and its guards delete their files: what is not there is
\* only warned about, and so is a log that a process still holds open.
End(res) ==
    /\ task' = "ended" /\ result' = res
    /\ guards' = {}
    /\ \E held \in MayBeHeld : disk' = disk \ (guards \ held)

\* resolve_procmon_path: found, downloaded, or an error.
Resolve ==
    /\ task = "resolve"
    /\ \/ /\ task' = "config"
          /\ UNCHANGED <<result, disk, guards>>
       \/ End("resolveFailed")
    /\ UNCHANGED <<client, signals, futures, children, whole>>

\* The guard, then `std::fs::write(&pmc_path, ...)?`, then the guard of the log.
WriteConfig ==
    /\ task = "config"
    /\ \/ /\ task' = "join" /\ guards' = {"pmc", "pml"} /\ disk' = disk \cup {"pmc"}
          /\ UNCHANGED result
       \/ End("configFailed")
    /\ UNCHANGED <<client, signals, futures, children, whole>>

\* The futures are polled for the first time in the order of try_join!.
SpawnCapture ==
    /\ task = "join" /\ fRun = "init"
    /\ fRun' = "child" /\ capture' = "starting"
    /\ UNCHANGED <<client, signals, task, result, fWait, fCancel, idle, terminate, export,
                   disk, guards, whole>>

SpawnIdle ==
    /\ task = "join" /\ fRun # "init" /\ fWait = "init"
    /\ fWait' = "child" /\ idle' = "running"
    /\ UNCHANGED <<client, signals, task, result, fRun, fCancel, capture, terminate, export,
                   disk, guards, whole>>

\* Mutant: run_end_token is not cancelled.
CaptureDoneSilent ==
    /\ task = "join" /\ fRun = "child" /\ capture \in {"success", "failure"}
    /\ fRun' = "done"
    /\ UNCHANGED <<client, signals, task, result, fWait, fCancel, children,
                   disk, guards, whole>>

\* run_future: the capture has ended, whatever its status.
CaptureDone ==
    /\ task = "join" /\ fRun = "child" /\ capture \in {"success", "failure"}
    /\ fRun' = "done" /\ runEnd' = TRUE
    /\ UNCHANGED <<client, startedSignal, stopSignal, task, result, fWait, fCancel, children,
                   disk, guards, whole>>

\* Mutant: started_signal is cancelled before the status is looked at.
IdleDoneUnchecked ==
    /\ task = "join" /\ fWait = "child" /\ idle \in {"success", "failure"}
    /\ fWait' = "done" /\ startedSignal' = TRUE
    /\ UNCHANGED <<client, stopSignal, runEnd, task, result, fRun, fCancel, children,
                   disk, guards, whole>>

\* Mutant: started_signal is never cancelled.
IdleDoneSilent ==
    /\ task = "join" /\ fWait = "child" /\ idle = "success"
    /\ fWait' = "done"
    /\ UNCHANGED <<client, signals, task, result, fRun, fCancel, children,
                   disk, guards, whole>>

\* wait_future: only its success cancels the token start() waits for.
IdleDone ==
    /\ task = "join" /\ fWait = "child" /\ idle = "success"
    /\ fWait' = "done" /\ startedSignal' = TRUE
    /\ UNCHANGED <<client, stopSignal, runEnd, task, result, fRun, fCancel, children,
                   disk, guards, whole>>

\* Mutant: the test of run_end_token is the wrong way round.
StopSeenInverted ==
    /\ task = "join" /\ fWait # "init" /\ fCancel = "init" /\ stopSignal
    /\ IF ~runEnd THEN fCancel' = "done" /\ UNCHANGED terminate
                  ELSE fCancel' = "child" /\ terminate' = "running"
    /\ UNCHANGED <<client, signals, task, result, fRun, fWait, capture, idle, export,
                   disk, guards, whole>>

\* cancel_future: stop() was called; a capture known to have ended is left alone.
StopSeen ==
    /\ task = "join" /\ fWait # "init" /\ fCancel = "init" /\ stopSignal
    /\ IF runEnd THEN fCancel' = "done" /\ UNCHANGED terminate
                 ELSE fCancel' = "child" /\ terminate' = "running"
    /\ UNCHANGED <<client, signals, task, result, fRun, fWait, capture, idle, export,
                   disk, guards, whole>>

\* ... and the status of /Terminate is only warned about.
TerminateDone ==
    /\ task = "join" /\ fCancel = "child" /\ terminate \in {"success", "failure"}
    /\ fCancel' = "done"
    /\ UNCHANGED <<client, signals, task, result, fRun, fWait, children, disk, guards, whole>>

\* An error of one future ends try_join! at once and drops the others: a child
\* that cannot be spawned or /WaitForIdle ending badly.  Children run on.
JoinFails ==
    /\ task = "join"
    /\ \/ fRun = "init"
       \/ fRun # "init" /\ fWait = "init"
       \/ fWait = "child" /\ idle = "failure"
       \/ fWait # "init" /\ fCancel = "init" /\ stopSignal /\ ~runEnd
    /\ End("joinFailed")
    /\ UNCHANGED <<client, signals, futures, children, whole>>

\* An error of the wait for a child, at any time, is an error of its future too.
WaitFails ==
    /\ task = "join" /\ "child" \in {fRun, fWait, fCancel}
    /\ End("waitFailed")
    /\ UNCHANGED <<client, signals, futures, children, whole>>

\* Mutant: the join goes on once /Terminate has answered.
JoinedEarly ==
    /\ task = "join" /\ fWait = "done" /\ fCancel = "done"
    /\ \/ /\ task' = "export" /\ guards' = guards \cup {"xml"} /\ export' = "running"
          /\ UNCHANGED <<result, disk>>
       \/ End("exportFailed") /\ UNCHANGED export
    /\ UNCHANGED <<client, signals, futures, capture, idle, terminate, whole>>

\* All three futures are done: the guard of the xml, and the export's child.
Joined ==
    /\ task = "join" /\ fRun = "done" /\ fWait = "done" /\ fCancel = "done"
    /\ \/ /\ task' = "export" /\ guards' = guards \cup {"xml"} /\ export' = "running"
          /\ UNCHANGED <<result, disk>>
       \/ End("exportFailed") /\ UNCHANGED export
    /\ UNCHANGED <<client, signals, futures, capture, idle, terminate, whole>>

\* The export's status is not looked at, only whether its file is there; then
\* the file is opened and parsed, and its events are filtered.
ExportDone ==
    /\ task = "export" /\ export \in {"success", "failure"}
    /\ IF "xml" \in disk
       THEN \E res \in {"ok", "parseFailed"} : End(res)
       ELSE End("noXml")
    /\ UNCHANGED <<client, signals, futures, children, whole>>

\* The wait for the export may fail as well, and the export runs on.
ExportWaitFails ==
    /\ task = "export"
    /\ End("exportLost")
    /\ UNCHANGED <<client, signals, futures, children, whole>>

-----------------------------------------------------------------------------
(* Process Monitor (external).                                             *)

NoneElse == UNCHANGED <<client, signals, task, result, futures, guards>>

CaptureUp ==
    /\ capture = "starting"
    /\ capture' = "running" /\ disk' = disk \cup {"pml"}
    /\ NoneElse /\ UNCHANGED <<idle, terminate, export, whole>>

\* It cannot start, or ends before it is told to.
CaptureDies ==
    /\ capture \in {"starting", "running"}
    /\ capture' = "failure" /\ whole' = FALSE
    /\ NoneElse /\ UNCHANGED <<idle, terminate, export, disk>>

CaptureTerminates ==
    /\ capture = "terminating"
    /\ capture' = "success"
    /\ NoneElse /\ UNCHANGED <<idle, terminate, export, disk, whole>>

IdleExits ==
    /\ idle = "running"
    /\ idle' \in IF capture = "running" THEN {"success", "failure"} ELSE {"failure"}
    /\ NoneElse /\ UNCHANGED <<capture, terminate, export, disk, whole>>

TerminateExits ==
    /\ terminate = "running"
    /\ terminate' \in {"success", "failure"}
    /\ capture' = IF terminate' = "success" /\ capture = "running" THEN "terminating" ELSE capture
    /\ NoneElse /\ UNCHANGED <<idle, export, disk, whole>>

\* It has written the xml or not; the log that it read may be gone by then.
ExportExits ==
    /\ export = "running"
    /\ export' \in {"success", "failure"}
    /\ disk' \in IF "pml" \in disk \/ task = "ended" THEN {disk, disk \cup {"xml"}} ELSE {disk}
    /\ NoneElse /\ UNCHANGED <<capture, idle, terminate, whole>>

-----------------------------------------------------------------------------
Client == Start \/ StartReturns \/ Stop \/ StopReturns
Run == \/ Resolve \/ WriteConfig \/ SpawnCapture \/ SpawnIdle \/ CaptureDone \/ IdleDone
       \/ StopSeen \/ TerminateDone \/ JoinFails \/ Joined \/ ExportDone
Procmon == \/ CaptureUp \/ CaptureDies \/ CaptureTerminates
           \/ IdleExits \/ TerminateExits \/ ExportExits

WaitsFail == WaitFails \/ ExportWaitFails

Next == Client \/ Run \/ WaitsFail \/ Procmon

Spec == Init /\ [][Next]_vars

CaptureSettles == capture = "starting" /\ (CaptureUp \/ CaptureDies)

\* The runtime polls what is ready, and the helpers and a terminated capture
\* exit in the end.  A capture that nobody terminates may run forever, and no
\* wait has to fail.
FairSpec ==
    /\ Spec
    /\ WF_vars(StartReturns) /\ WF_vars(StopReturns) /\ WF_vars(Run)
    /\ WF_vars(CaptureSettles) /\ WF_vars(CaptureTerminates)
    /\ WF_vars(IdleExits) /\ WF_vars(TerminateExits) /\ WF_vars(ExportExits)

-----------------------------------------------------------------------------
(* As a Monitor.                                                           *)

\* The client's `?` sees a task that failed in stop() only.
MonitorPhase == IF client = "tracking" THEN "started" ELSE client

\* What is noted is the log, from the moment its capture writes no more.
Noted == IF CaptureAlive \/ capture = "none" \/ client = "failed" THEN {} ELSE {"log"}

Abstract == INSTANCE ChangeMonitor
                WITH Changes <- {"log"}, phase <- MonitorPhase, noted <- Noted

-----------------------------------------------------------------------------
(* Properties.                                                             *)

\* The values of the variables, and which of the actors' states go together:
\* the futures only move inside the join, run_end_token tells that the first
\* has finished, and guards live and die with run().
TypeOK ==
    /\ client \in {"new", "starting", "tracking", "stopping", "stopped", "failed"}
    /\ startedSignal \in BOOLEAN /\ stopSignal \in BOOLEAN /\ runEnd \in BOOLEAN
    /\ task \in {"unspawned", "resolve", "config", "join", "export", "ended"}
    /\ result \in {"none", "ok", "resolveFailed", "configFailed", "joinFailed",
                   "waitFailed", "exportFailed", "exportLost", "noXml", "parseFailed"}
    /\ \A f \in {fRun, fWait, fCancel} : f \in {"init", "child", "done"}
    /\ capture \in Child \cup {"starting", "terminating"}
    /\ {idle, terminate, export} \subseteq Child
    /\ disk \subseteq TempFiles /\ guards \subseteq TempFiles /\ whole \in BOOLEAN
    /\ task = "ended" <=> result # "none"
    /\ task = "unspawned" <=> client = "new"
    /\ runEnd <=> fRun = "done"
    /\ startedSignal => fWait = "done"
    /\ fCancel # "init" => stopSignal
    /\ stopSignal <=> client \in {"stopping", "stopped", "failed"}
    /\ guards = CASE task = "join" -> {"pmc", "pml"} [] task = "export" -> TempFiles
                   [] OTHER -> {}

\* From the return of start() to the call of stop() there is a capture at work
\* and writes its log, unless Procmon ended by itself; and run() is there to end
\* it, unless the wait for a child failed: then the capture is nobody's any more.
StartedMeansCapturing ==
    client = "tracking" /\ whole =>
        /\ capture = "running" /\ "pml" \in disk
        /\ (task = "join" /\ "pmc" \in disk) \/ result = "waitFailed"

\* The log is exported, and a result made of it, only once stop() was called
\* and the capture is no longer writing to it.
ExportsEndedCapture ==
    task = "export" \/ result \in {"ok", "exportLost", "noXml", "parseFailed"} =>
        stopSignal /\ ~CaptureAlive

\* run() leaves none of its temporary files behind, whichever way it ends, but
\* those of a child that outlives it: a join that failed may leave the log of a
\* capture that nobody has ended, and a wait for the export that failed the log
\* and what the export makes of it.
NoLitter ==
    task = "ended" =>
        disk \subseteq (CASE result \in {"joinFailed", "waitFailed"} -> {"pml"}
                         [] result = "exportLost" -> {"pml", "xml"}
                         [] OTHER -> {})

\* start() returns, provided that run() does not end before.
StartReturnsUnlessTaskEnds ==
    client = "starting" ~> client = "tracking" \/ task = "ended"

\* stop() returns, a capture that runs on being the fault of /Terminate alone.
StopReturnsUnlessTerminateFails ==
    client = "stopping" ~> client \in {"stopped", "failed"} \/ terminate = "failure"

\* This monitor keeps what the trait promises: a stop() that succeeds leaves
\* no capture behind that would still write to what was reported.
ImplementsMonitor == Abstract!Spec

\* main.rs:89-90, `monitor.start().await?` and "Monitoring started.": a start
\* that does not succeed returns its error, so a call of it comes to an end.
StartEnds == client = "starting" ~> client # "starting"
=============================================================================
