------------------------------ MODULE Session -------------------------------
(***************************************************************************)
(* src/main.rs: the commands GuestLaunch and GuestTrack, one action per    *)
(* call that may fail or wait, with the launched process as an actor of    *)
(* its own.  The monitor is a ChangeMonitor and write_out an               *)
(* ArchiveWriter, which the modules of the monitors and Packer implement.  *)
(***************************************************************************)

VARIABLES
    command,    \* "GuestLaunch" or "GuestTrack"
    shutdownOnExit, \* LaunchOptions.shutdown_on_exit
    method,     \* MonitorOptions.method
    image,      \* the executable is where LaunchOptions.process says
    pc,         \* the call main is at; "off" when the program does not run
    verdict,    \* what main returned: "none", "ok" or "error"
    process,    \* the launched process
    resumeLost, \* ResumeThread failed, and its result was not looked at
    halting,    \* whether the system is being shut down: "no", "yes", "refused"
    phase, noted,   \* the monitor, as in ChangeMonitor
    writer, output, overwrite   \* write_out, as in ArchiveWriter

options == <<command, shutdownOnExit, method, image>>
monitor == <<phase, noted>>
archive == <<writer, output, overwrite>>
launched == <<process, resumeLost, halting>>
sessionVars == <<options, monitor, archive, launched, pc, verdict>>

\* What is noted is the monitors' own matter.
Monitor == INSTANCE ChangeMonitor WITH Changes <- {}
Writer == INSTANCE ArchiveWriter

\* The program runs, and has not come to its end.
Alive == pc \notin {"off", "returned", "killed"}

-----------------------------------------------------------------------------
(* The launched process (external).  Anybody may end it, and while its     *)
(* only thread is suspended it does nothing.                               *)

ProcessExits ==
    /\ process \in {"suspended", "running"}
    /\ process' = "exited"
    /\ UNCHANGED <<options, monitor, archive, resumeLost, halting, pc, verdict>>

-----------------------------------------------------------------------------
(* main.                                                                   *)

Goto(next) == pc' = next /\ UNCHANGED verdict
Return(v) == pc' = "returned" /\ verdict' = v

\* With CREATE_SUSPENDED.
Spawn ==
    /\ pc = "spawn" /\ image
    /\ process' = "suspended" /\ Goto("new")
    /\ UNCHANGED <<options, monitor, archive, resumeLost, halting>>

NewMonitor ==
    /\ pc = "new" /\ Goto("start")
    /\ UNCHANGED <<options, monitor, archive, launched>>

\* Only Process Monitor has to be waited for.
Start ==
    /\ pc = "start" /\ Goto("starting")
    /\ Monitor!Start /\ phase' = (IF method = "Procmon" THEN "starting" ELSE "started")
    /\ UNCHANGED <<options, archive, launched>>

MonitorStarts ==
    /\ pc = "starting" /\ Monitor!StartReturns
    /\ UNCHANGED <<options, archive, launched, pc, verdict>>

\* Mutant: nobody awaits start().
StartedUnawaited ==
    /\ pc = "starting"
    /\ Goto(IF command = "GuestLaunch" THEN "resume" ELSE "enter")
    /\ UNCHANGED <<options, monitor, archive, launched>>

Started ==
    /\ pc = "starting" /\ phase = "started"
    /\ Goto(IF command = "GuestLaunch" THEN "resume" ELSE "enter")
    /\ UNCHANGED <<options, monitor, archive, launched>>

\* Mutant: the process is not resumed.
ResumeSkipped ==
    /\ pc = "resume" /\ Goto("wait")
    /\ UNCHANGED <<options, monitor, archive, launched>>

\* resume_process finds no thread of a process that is gone, and fails; what
\* ResumeThread returns is dropped.
Resume ==
    /\ pc = "resume" /\ process = "suspended" /\ Goto("wait")
    /\ \/ process' = "running" /\ UNCHANGED resumeLost
       \/ resumeLost' = TRUE /\ UNCHANGED process
    /\ UNCHANGED <<options, monitor, archive, halting>>

\* The children of the process are not waited for.
Wait ==
    /\ pc = "wait" /\ process = "exited" /\ Goto("stop")
    /\ UNCHANGED <<options, monitor, archive, launched>>

\* The user ends a GuestTrack.
Enter ==
    /\ pc = "enter" /\ Goto("stop")
    /\ UNCHANGED <<options, monitor, archive, launched>>

Stop ==
    /\ pc = "stop" /\ Goto("stopping")
    /\ Monitor!Stop /\ phase' = (IF method = "Usn" THEN "stopped" ELSE "stopping")
    /\ UNCHANGED <<options, archive, launched>>

MonitorStops ==
    /\ pc = "stopping" /\ Monitor!StopReturns
    /\ UNCHANGED <<options, archive, launched, pc, verdict>>

Stopped ==
    /\ pc = "stopping" /\ phase = "stopped" /\ Goto("pack")
    /\ UNCHANGED <<options, monitor, archive, launched>>

OpenOutput ==
    /\ pc = "pack" /\ Writer!Open /\ Goto("packing")
    /\ UNCHANGED <<options, monitor, launched>>

\* Mutant: the result of write_out is not looked at.
PackUnchecked ==
    /\ pc = "packing" /\ (Writer!Finish \/ Writer!Break)
    /\ IF shutdownOnExit THEN Goto("shutdown") ELSE Return("ok")
    /\ UNCHANGED <<options, monitor, launched>>

\* Mutant: the flag of the sandbox's guest is not looked at.
PackOnly ==
    /\ pc = "packing" /\ Writer!Finish /\ Return("ok")
    /\ UNCHANGED <<options, monitor, launched>>

Pack ==
    /\ pc = "packing" /\ Writer!Finish
    /\ IF shutdownOnExit THEN Goto("shutdown") ELSE Return("ok")
    /\ UNCHANGED <<options, monitor, launched>>

\* The command is awaited; that it did shut down is not asked.
Shutdown ==
    /\ pc = "shutdown" /\ Return("ok")
    /\ halting' \in {"yes", "refused"}
    /\ UNCHANGED <<options, monitor, archive, process, resumeLost>>

\* Every `?` of main: it returns, and leaves the process as it is.
Fails ==
    /\ Return("error") /\ UNCHANGED <<options, launched>>
    /\ \/ pc \in {"spawn", "new", "resume", "wait", "enter", "shutdown"}
          /\ UNCHANGED <<monitor, archive>>
       \/ pc \in {"start", "starting", "stop", "stopping"} /\ Monitor!Fail /\ UNCHANGED archive
       \/ pc \in {"pack", "packing"} /\ (Writer!Refuse \/ Writer!Break) /\ UNCHANGED monitor

\* Somebody ends the program.
Killed ==
    /\ Alive /\ pc' = "killed"
    /\ UNCHANGED <<options, monitor, archive, launched, verdict>>

\* Calls that return, in one way or the other; those at `Waiting` wait for
\* somebody, and need not.
Waiting == {"starting", "wait", "enter", "stopping"}

Proceeds ==
    \/ Spawn \/ NewMonitor \/ Start \/ Started \/ Resume \/ Wait
    \/ Stop \/ Stopped \/ OpenOutput \/ Pack \/ Shutdown

Returns == Proceeds \/ (pc \notin Waiting /\ Fails)

SessionNext ==
    \/ Proceeds \/ Fails \/ MonitorStarts \/ MonitorStops
    \/ Enter \/ ProcessExits \/ Killed

-----------------------------------------------------------------------------
\* The values of the variables.
SessionTypeOK ==
    /\ command \in {"GuestLaunch", "GuestTrack"}
    /\ shutdownOnExit \in BOOLEAN /\ image \in BOOLEAN
    /\ method \in {"Usn", "WinApi", "Procmon"}
    /\ pc \in {"off", "spawn", "new", "start", "starting", "resume", "wait", "enter", "stop",
               "stopping", "pack", "packing", "shutdown", "returned", "killed"}
    /\ verdict \in {"none", "ok", "error"}
    /\ process \in {"none", "suspended", "running", "exited"}
    /\ resumeLost \in BOOLEAN /\ halting \in {"no", "yes", "refused"}
    /\ phase \in Monitor!Phases /\ noted = {}
    /\ writer \in {"idle", "writing", "done", "failed"}
    /\ output \in Writer!Outputs /\ overwrite \in BOOLEAN

\* A launched process runs only while the monitor is started, for as long as
\* the program is there to monitor it; and what runs was meant to
\* (main.rs:76-97).
RunsMonitored == process = "running" /\ Alive => phase = "started" /\ pc = "wait"

\* A session that succeeds has written a complete archive, of what a stopped
\* monitor says about a process that has ended.
OkMeansArchive ==
    verdict = "ok" =>
        /\ output = "complete" /\ phase = "stopped"
        /\ command = "GuestLaunch" => process = "exited"

\* The launched process does not stay suspended, unless the program ended
\* with an error or was killed, start() never returns (Procmon), or
\* ResumeThread failed.
ResumedUnlessFailed ==
    [](process = "suspended" =>
          <>(process # "suspended" \/ verdict = "error" \/ pc \in {"killed", "off"} \/ resumeLost
             \/ [](method = "Procmon" /\ pc = "starting" /\ phase = "starting")))
=============================================================================
