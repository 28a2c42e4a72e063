-------------------------- MODULE SandboxHostProofs --------------------------
(***************************************************************************)
(* The safety properties of SandboxHost, of a Session alone and of one in  *)
(* a sandbox, however often the program is run; and what an interrupted    *)
(* download does to the later runs.                                        *)
(***************************************************************************)
EXTENDS SandboxHost, TLAPS

-----------------------------------------------------------------------------
(* The inductive invariant.                                                *)

\* Where main is, the monitor is, and write_out.
SessionPhases ==
    /\ pc \in {"off", "spawn", "new", "start"} => phase = "new"
    /\ pc = "starting" => phase \in {"starting", "started"}
    /\ pc \in {"resume", "wait", "enter", "stop"} => phase = "started"
    /\ pc = "stopping" => phase \in {"stopping", "stopped"}
    /\ pc \in {"pack", "packing", "shutdown"} => phase = "stopped"
    /\ Alive /\ pc \notin {"packing", "shutdown"} => writer = "idle"
    /\ pc = "off" => writer = "idle"
    /\ pc = "packing" => writer = "writing"
    /\ pc = "shutdown" => output = "complete"
    /\ pc = "starting" /\ phase = "starting" => method = "Procmon"
    /\ pc = "stopping" /\ phase = "stopping" => method # "Usn"

\* Where main is, the launched process is.
SessionProcess ==
    /\ Alive /\ process = "running" => pc = "wait"
    /\ command = "GuestLaunch" /\ pc \in {"stop", "stopping", "pack", "packing", "shutdown"}
          => process = "exited"
    /\ command = "GuestLaunch" => pc # "enter"
    /\ command = "GuestTrack" => process = "none" /\ pc # "spawn"
    /\ Alive /\ process = "suspended" =>
          pc \in {"new", "start", "starting", "resume"} \/ (pc = "wait" /\ resumeLost)

\* A verdict ends the session, and only a good one halts the system.
SessionVerdict ==
    /\ verdict # "none" => pc = "returned"
    /\ halting # "no" => verdict = "ok"
    /\ pc = "returned" => verdict # "none"
    /\ verdict = "ok" /\ shutdownOnExit => halting # "no"

SInv == SessionTypeOK /\ SessionPhases /\ SessionProcess /\ SessionVerdict /\ OkMeansArchive

\* The sandbox's guest is a GuestLaunch that has not begun before it boots.
Hosted ==
    /\ host = "none" => sandbox = "off" /\ hostVerdict = "none"
    /\ host # "none" =>
          /\ command = "GuestLaunch" /\ shutdownOnExit
          /\ sandbox \in {"off", "booting"} => pc = "off" /\ process = "none"
    /\ host \in {"mkdir", "self", "cert", "find", "download", "save", "verify", "procmon", "process",
                 "script", "wsb", "start"} => sandbox = "off"
    /\ host \in {"wait", "fetch"} => sandbox # "off"
    /\ host = "fetch" => sandbox = "closed"
    /\ sandbox # "closed" => closed = NotClosed
    /\ sandbox = "closed" => closed.by # "nobody"
    /\ closed.by = "guest" => verdict = "ok"
    /\ hostVerdict # "none" => host = "returned"
    /\ hostVerdict = "ok" => sandbox = "closed"

TheWorkFolder == [host |-> "work", sandbox |-> "workFolder"]

\* What is in the work folder by the time the host has come so far.
Past(steps) == host \in steps \/ sandbox # "off"

LastSteps == {"script", "wsb", "start", "wait", "fetch"}
LateSteps == {"cert", "find", "download", "save", "verify", "procmon", "process"} \cup LastSteps

Prepared ==
    /\ Past(LateSteps \cup {"self"}) =>
          /\ TheWorkFolder \in mapped
          /\ \A m \in mapped : m.sandbox = "workFolder"
          /\ ~settings.share => mapped = {TheWorkFolder}
    /\ Past(LateSteps) /\ (settings.share \/ settings.name # "dynstaller.exe")
          => work["dynstaller.exe"] = "self"
    /\ Past(LastSteps) =>
          sandboxProcess = <<IF settings.share THEN "processFolder" ELSE "workFolder", settings.name>>
    /\ Past(LastSteps) /\ ~settings.share /\ settings.name # "launch.ps1"
          => work[settings.name] = "process"
    /\ Past({"wsb", "start", "wait", "fetch"}) => work["launch.ps1"] = "script"
    /\ sandbox = "up" /\ pc = "off" => settings.share \/ settings.name = "dynstaller.exe"

\* Process Monitor, from its hash to its copy.
Verified ==
    /\ host \in {"mkdir", "self", "cert", "find", "download", "save", "verify", "procmon"} =>
          work["Procmon64.exe"] = "absent"
    /\ host \in {"download", "save", "verify"} => found # "absent"
    /\ host = "procmon" =>
          \/ found = "temp" /\ (temp = "whole" \/ rival \notin {"idle", "asking"})
          \/ found = "elsewhere" /\ settings.elsewhere = "whole"
    /\ rival \in {"saving", "done", "broken"} => temp # "absent"

IInv ==
    /\ TypeOK
    /\ SessionPhases
    /\ SessionProcess
    /\ SessionVerdict
    /\ OkMeansArchive
    /\ Hosted
    /\ HostOkMeansArchive
    /\ Prepared
    /\ GuestStarts
    /\ Verified
    /\ ProcmonGenuine
    /\ GenuineMonitored
    /\ PartialOnlyInterrupted

THEOREM InitInv == Init => IInv
<1> SUFFICES ASSUME Init PROVE IInv
  OBVIOUS
<1> USE DEF Init, FreshHost, NotClosed, EmptyFolder, Names
<1>1. CASE InitGuest
  <2> USE <1>1 DEF InitGuest, Monitor!Init, Writer!Init
  <2>1. TypeOK
    <3>1. SessionTypeOK
      BY DEF SessionTypeOK, Monitor!Phases, Writer!Outputs
    <3>2. settings \in Settings /\ closed \in [by : {"nobody", "guest", "outside"}, success : BOOLEAN]
      BY DEF Settings
    <3>3. work \in [Names -> Contents]
      BY DEF Contents
    <3>4. runs \in 0 .. (MaxRuns + 1)
      BY MaxRunsAssumption
    <3> QED
      BY <3>1, <3>2, <3>3, <3>4 DEF TypeOK, Writer!Outputs
  <2>2. SessionPhases /\ SessionProcess /\ SessionVerdict /\ OkMeansArchive
    BY DEF SessionPhases, SessionProcess, SessionVerdict, OkMeansArchive, Alive
  <2>3. Hosted /\ HostOkMeansArchive /\ Prepared /\ GuestStarts
    BY DEF Hosted, HostOkMeansArchive, Prepared, GuestStarts, Past, LastSteps, LateSteps
  <2>4. Verified /\ ProcmonGenuine /\ GenuineMonitored /\ PartialOnlyInterrupted
    BY DEF Verified, ProcmonGenuine, GenuineMonitored, PartialOnlyInterrupted
  <2> QED
    BY <2>1, <2>2, <2>3, <2>4 DEF IInv
<1>2. CASE InitHost
  <2> USE <1>2 DEF InitHost, FreshGuest, Monitor!Init
  <2>1. TypeOK
    <3>1. SessionTypeOK
      BY DEF SessionTypeOK, Monitor!Phases, Writer!Outputs
    <3>2. settings \in Settings /\ closed \in [by : {"nobody", "guest", "outside"}, success : BOOLEAN]
      BY DEF Settings
    <3>3. work \in [Names -> Contents]
      BY DEF Contents
    <3>4. runs \in 0 .. (MaxRuns + 1)
      BY MaxRunsAssumption
    <3> QED
      BY <3>1, <3>2, <3>3, <3>4 DEF TypeOK, Writer!Outputs
  <2>2. SessionPhases /\ SessionProcess /\ SessionVerdict /\ OkMeansArchive
    BY DEF SessionPhases, SessionProcess, SessionVerdict, OkMeansArchive, Alive
  <2>3. Hosted /\ HostOkMeansArchive /\ Prepared /\ GuestStarts
    BY DEF Hosted, HostOkMeansArchive, Prepared, GuestStarts, Past, LastSteps, LateSteps
  <2>4. Verified /\ ProcmonGenuine /\ GenuineMonitored /\ PartialOnlyInterrupted
    BY DEF Verified, ProcmonGenuine, GenuineMonitored, PartialOnlyInterrupted
  <2> QED
    BY <2>1, <2>2, <2>3, <2>4 DEF IInv
<1> QED
  BY <1>1, <1>2

-----------------------------------------------------------------------------
(* The session.                                                            *)

\* The conjuncts about the session are inductive by themselves.
LEMMA SessionInv ==
    ASSUME SInv, SessionNext
    PROVE  SInv'
<1> USE DEF SInv, options, monitor, archive, launched, Goto, Return
<1>1. CASE Spawn
  <2> USE <1>1 DEF Spawn
  <2>1. SessionTypeOK' /\ SessionVerdict'
    BY DEF SessionTypeOK, SessionVerdict, Alive
  <2>2. SessionPhases' /\ SessionProcess'
    BY DEF SessionTypeOK, SessionPhases, SessionProcess, Alive
  <2>3. OkMeansArchive'
    BY DEF SessionTypeOK, SessionPhases, SessionProcess, SessionVerdict, OkMeansArchive
  <2> QED
    BY <2>1, <2>2, <2>3
<1>2. CASE NewMonitor
  <2> USE <1>2 DEF NewMonitor
  <2>1. SessionTypeOK' /\ SessionVerdict'
    BY DEF SessionTypeOK, SessionVerdict, Alive
  <2>2. SessionPhases' /\ SessionProcess'
    BY DEF SessionTypeOK, SessionPhases, SessionProcess, Alive
  <2>3. OkMeansArchive'
    BY DEF SessionTypeOK, SessionPhases, SessionProcess, SessionVerdict, OkMeansArchive
  <2> QED
    BY <2>1, <2>2, <2>3
<1>3. CASE Start
  <2> USE <1>3 DEF Start, Monitor!Start, Monitor!Phases
  <2>1. SessionTypeOK' /\ SessionVerdict'
    BY DEF SessionTypeOK, SessionVerdict, Alive
  <2>2. SessionPhases' /\ SessionProcess'
    BY DEF SessionTypeOK, SessionPhases, SessionProcess, Alive
  <2>3. OkMeansArchive'
    BY DEF SessionTypeOK, SessionPhases, SessionProcess, SessionVerdict, OkMeansArchive
  <2> QED
    BY <2>1, <2>2, <2>3
<1>4. CASE Started
  <2> USE <1>4 DEF Started
  <2>1. SessionTypeOK' /\ SessionVerdict'
    BY DEF SessionTypeOK, SessionVerdict, Alive
  <2>2. SessionPhases' /\ SessionProcess'
    BY DEF SessionTypeOK, SessionPhases, SessionProcess, Alive
  <2>3. OkMeansArchive'
    BY DEF SessionTypeOK, SessionPhases, SessionProcess, SessionVerdict, OkMeansArchive
  <2> QED
    BY <2>1, <2>2, <2>3
<1>5. CASE Resume
  <2> USE <1>5 DEF Resume
  <2>1. SessionTypeOK' /\ SessionVerdict'
    BY DEF SessionTypeOK, SessionVerdict, Alive
  <2>2. SessionPhases' /\ SessionProcess'
    BY DEF SessionTypeOK, SessionPhases, SessionProcess, Alive
  <2>3. OkMeansArchive'
    BY DEF SessionTypeOK, SessionPhases, SessionProcess, SessionVerdict, OkMeansArchive
  <2> QED
    BY <2>1, <2>2, <2>3
<1>6. CASE Wait
  <2> USE <1>6 DEF Wait
  <2>1. SessionTypeOK' /\ SessionVerdict'
    BY DEF SessionTypeOK, SessionVerdict, Alive
  <2>2. SessionPhases' /\ SessionProcess'
    BY DEF SessionTypeOK, SessionPhases, SessionProcess, Alive
  <2>3. OkMeansArchive'
    BY DEF SessionTypeOK, SessionPhases, SessionProcess, SessionVerdict, OkMeansArchive
  <2> QED
    BY <2>1, <2>2, <2>3
<1>7. CASE Stop
  <2> USE <1>7 DEF Stop, Monitor!Stop, Monitor!Phases
  <2>1. SessionTypeOK' /\ SessionVerdict'
    BY DEF SessionTypeOK, SessionVerdict, Alive
  <2>2. SessionPhases' /\ SessionProcess'
    BY DEF SessionTypeOK, SessionPhases, SessionProcess, Alive
  <2>3. OkMeansArchive'
    BY DEF SessionTypeOK, SessionPhases, SessionProcess, SessionVerdict, OkMeansArchive
  <2> QED
    BY <2>1, <2>2, <2>3
<1>8. CASE Stopped
  <2> USE <1>8 DEF Stopped
  <2>1. SessionTypeOK' /\ SessionVerdict'
    BY DEF SessionTypeOK, SessionVerdict, Alive
  <2>2. SessionPhases' /\ SessionProcess'
    BY DEF SessionTypeOK, SessionPhases, SessionProcess, Alive
  <2>3. OkMeansArchive'
    BY DEF SessionTypeOK, SessionPhases, SessionProcess, SessionVerdict, OkMeansArchive
  <2> QED
    BY <2>1, <2>2, <2>3
<1>9. CASE OpenOutput
  <2> USE <1>9 DEF OpenOutput, Writer!Open, Writer!Outputs
  <2>1. SessionTypeOK' /\ SessionVerdict'
    BY DEF SessionTypeOK, SessionVerdict, Alive
  <2>2. SessionPhases' /\ SessionProcess'
    BY DEF SessionTypeOK, SessionPhases, SessionProcess, Alive
  <2>3. OkMeansArchive'
    BY DEF SessionTypeOK, SessionPhases, SessionProcess, SessionVerdict, OkMeansArchive
  <2> QED
    BY <2>1, <2>2, <2>3
<1>10. CASE Pack
  <2> USE <1>10 DEF Pack, Writer!Finish, Writer!Outputs
  <2>1. SessionTypeOK' /\ SessionVerdict'
    BY DEF SessionTypeOK, SessionVerdict, Alive
  <2>2. SessionPhases' /\ SessionProcess'
    BY DEF SessionTypeOK, SessionPhases, SessionProcess, Alive
  <2>3. OkMeansArchive'
    BY DEF SessionTypeOK, SessionPhases, SessionProcess, SessionVerdict, OkMeansArchive
  <2> QED
    BY <2>1, <2>2, <2>3
<1>11. CASE Shutdown
  <2> USE <1>11 DEF Shutdown
  <2>1. SessionTypeOK' /\ SessionVerdict'
    BY DEF SessionTypeOK, SessionVerdict, Alive
  <2>2. SessionPhases' /\ SessionProcess'
    BY DEF SessionTypeOK, SessionPhases, SessionProcess, Alive
  <2>3. OkMeansArchive'
    BY DEF SessionTypeOK, SessionPhases, SessionProcess, SessionVerdict, OkMeansArchive
  <2> QED
    BY <2>1, <2>2, <2>3
<1>12. CASE Fails
  <2> USE <1>12 DEF Fails, Monitor!Fail, Writer!Refuse, Writer!Break, Monitor!Phases
  <2>1. SessionTypeOK' /\ SessionVerdict'
    BY DEF SessionTypeOK, SessionVerdict, Alive
  <2>2. SessionPhases' /\ SessionProcess'
    BY DEF SessionTypeOK, SessionPhases, SessionProcess, Alive
  <2>3. OkMeansArchive'
    BY DEF SessionTypeOK, SessionPhases, SessionProcess, SessionVerdict, OkMeansArchive
  <2> QED
    BY <2>1, <2>2, <2>3
<1>13. CASE MonitorStarts
  <2> USE <1>13 DEF MonitorStarts, Monitor!StartReturns, Monitor!Phases
  <2>1. SessionTypeOK' /\ SessionVerdict'
    BY DEF SessionTypeOK, SessionVerdict, Alive
  <2>2. SessionPhases' /\ SessionProcess'
    BY DEF SessionTypeOK, SessionPhases, SessionProcess, Alive
  <2>3. OkMeansArchive'
    BY DEF SessionTypeOK, SessionPhases, SessionProcess, SessionVerdict, OkMeansArchive
  <2> QED
    BY <2>1, <2>2, <2>3
<1>14. CASE MonitorStops
  <2> USE <1>14 DEF MonitorStops, Monitor!StopReturns, Monitor!Phases
  <2>1. SessionTypeOK' /\ SessionVerdict'
    BY DEF SessionTypeOK, SessionVerdict, Alive
  <2>2. SessionPhases' /\ SessionProcess'
    BY DEF SessionTypeOK, SessionPhases, SessionProcess, Alive
  <2>3. OkMeansArchive'
    BY DEF SessionTypeOK, SessionPhases, SessionProcess, SessionVerdict, OkMeansArchive
  <2> QED
    BY <2>1, <2>2, <2>3
<1>15. CASE Enter
  <2> USE <1>15 DEF Enter
  <2>1. SessionTypeOK' /\ SessionVerdict'
    BY DEF SessionTypeOK, SessionVerdict, Alive
  <2>2. SessionPhases' /\ SessionProcess'
    BY DEF SessionTypeOK, SessionPhases, SessionProcess, Alive
  <2>3. OkMeansArchive'
    BY DEF SessionTypeOK, SessionPhases, SessionProcess, SessionVerdict, OkMeansArchive
  <2> QED
    BY <2>1, <2>2, <2>3
<1>16. CASE ProcessExits
  <2> USE <1>16 DEF ProcessExits
  <2>1. SessionTypeOK' /\ SessionVerdict'
    BY DEF SessionTypeOK, SessionVerdict, Alive
  <2>2. SessionPhases' /\ SessionProcess'
    BY DEF SessionTypeOK, SessionPhases, SessionProcess, Alive
  <2>3. OkMeansArchive'
    BY DEF SessionTypeOK, SessionPhases, SessionProcess, SessionVerdict, OkMeansArchive
  <2> QED
    BY <2>1, <2>2, <2>3
<1>17. CASE Killed
  <2> USE <1>17 DEF Killed
  <2>1. SessionTypeOK' /\ SessionVerdict'
    BY DEF SessionTypeOK, SessionVerdict, Alive
  <2>2. SessionPhases' /\ SessionProcess'
    BY DEF SessionTypeOK, SessionPhases, SessionProcess, Alive
  <2>3. OkMeansArchive'
    BY DEF SessionTypeOK, SessionPhases, SessionProcess, SessionVerdict, OkMeansArchive
  <2> QED
    BY <2>1, <2>2, <2>3
<1> QED
  BY <1>1, <1>2, <1>3, <1>4, <1>5, <1>6, <1>7, <1>8, <1>9, <1>10, <1>11, <1>12, <1>13,
     <1>14, <1>15, <1>16, <1>17
  DEF SessionNext, Proceeds

\* What the sandbox sees of a step of its guest.
LEMMA SessionKeeps ==
    ASSUME SInv, SessionNext
    PROVE  /\ UNCHANGED options
           /\ pc' = "off" <=> pc = "off"
           /\ verdict = "ok" => verdict' = "ok"
           /\ pc = "off" /\ process = "none" => process' = "none"
           /\ phase = "new" /\ pc # "start" => phase' = "new" /\ (pc' = "start" => pc = "new")
<1> USE DEF SInv, SessionVerdict, SessionPhases, Goto, Return, monitor
<1>1. CASE Proceeds
  BY <1>1 DEF Proceeds, Spawn, NewMonitor, Start, Started, Resume, Wait, Stop, Stopped, OpenOutput,
              Pack, Shutdown
<1>2. CASE Fails
  BY <1>2 DEF Fails
<1>3. CASE MonitorStarts \/ MonitorStops \/ Enter \/ ProcessExits \/ Killed
  BY <1>3 DEF MonitorStarts, MonitorStops, Enter, ProcessExits, Killed, Alive
<1> QED
  BY <1>1, <1>2, <1>3 DEF SessionNext

LEMMA SessionStutters ==
    ASSUME SInv, UNCHANGED sessionVars
    PROVE  SInv'
BY DEF SInv, SessionTypeOK, SessionPhases, SessionProcess, SessionVerdict, OkMeansArchive, Alive,
       sessionVars, options, monitor, archive, launched

LEMMA GuestInv ==
    ASSUME IInv, Guest
    PROVE  IInv'
<1> USE DEF IInv, Guest, hostVars, program, procmon, folders, vm
<1>1. SInv'
  BY SessionInv DEF SInv, TypeOK
<1>2. TypeOK'
  BY <1>1 DEF TypeOK, SInv
<1>3. Hosted' /\ GuestStarts'
  BY SessionKeeps DEF TypeOK, SInv, Hosted, GuestStarts, options
<1>4. HostOkMeansArchive' /\ Prepared'
  BY SessionKeeps DEF TypeOK, SInv, HostOkMeansArchive, Prepared, Past
<1>5. Verified' /\ ProcmonGenuine' /\ PartialOnlyInterrupted'
  BY DEF Verified, ProcmonGenuine, PartialOnlyInterrupted
<1>6. GenuineMonitored'
  BY SessionKeeps DEF TypeOK, SInv, GenuineMonitored, GuestVerifies, options
<1> QED
  BY <1>1, <1>2, <1>3, <1>4, <1>5, <1>6 DEF SInv

-----------------------------------------------------------------------------
(* The host.                                                               *)

\* The work folder is the first that is mapped.
LEMMA MakeWorkFolderInv ==
    ASSUME IInv, MakeWorkFolder
    PROVE  IInv'
<1> USE DEF IInv, MakeWorkFolder, At, Put, sessionVars, options, monitor, archive, launched,
            program, procmon, folders, vm
<1>1. SInv'
  BY SessionStutters DEF TypeOK, SInv
<1>2. TypeOK'
  BY <1>1 DEF TypeOK, SInv, Settings, Contents, Names, Places, Writer!Outputs, SessionTypeOK,
            FoundContent
<1>3. Hosted' /\ HostOkMeansArchive'
  BY DEF TypeOK, Hosted, HostOkMeansArchive, OkMeansArchive, NotClosed
<1>4. Prepared' /\ GuestStarts'
  BY DEF TypeOK, Prepared, GuestStarts, Past, LastSteps, LateSteps, TheWorkFolder,
            Hosted, Settings, Names
<1>5. Verified' /\ ProcmonGenuine' /\ GenuineMonitored' /\ PartialOnlyInterrupted'
  BY DEF TypeOK, Verified, ProcmonGenuine, GenuineMonitored, PartialOnlyInterrupted, Settings, Names,
         FoundContent, Hosted, SessionPhases
<1> QED
  BY <1>1, <1>2, <1>3, <1>4, <1>5 DEF SInv

\* The program is in the work folder.
LEMMA CopySelfInv ==
    ASSUME IInv, CopySelf
    PROVE  IInv'
<1> USE DEF IInv, CopySelf, At, Put, sessionVars, options, monitor, archive, launched,
            program, procmon, folders, vm
<1>1. SInv'
  BY SessionStutters DEF TypeOK, SInv
<1>2. TypeOK'
  BY <1>1 DEF TypeOK, SInv, Settings, Contents, Names, Places, Writer!Outputs, SessionTypeOK,
            FoundContent
<1>3. Hosted' /\ HostOkMeansArchive'
  BY DEF TypeOK, Hosted, HostOkMeansArchive, OkMeansArchive, NotClosed
<1>4. Prepared' /\ GuestStarts'
  BY DEF TypeOK, Prepared, GuestStarts, Past, LastSteps, LateSteps, TheWorkFolder,
            Hosted, Settings, Names
<1>5. Verified' /\ ProcmonGenuine' /\ GenuineMonitored' /\ PartialOnlyInterrupted'
  BY DEF TypeOK, Verified, ProcmonGenuine, GenuineMonitored, PartialOnlyInterrupted, Settings, Names,
         FoundContent, Hosted, SessionPhases
<1> QED
  BY <1>1, <1>2, <1>3, <1>4, <1>5 DEF SInv

\* The certificate is no other file.
LEMMA CopyCertInv ==
    ASSUME IInv, CopyCert
    PROVE  IInv'
<1> USE DEF IInv, CopyCert, At, Put, sessionVars, options, monitor, archive, launched,
            program, procmon, folders, vm
<1>1. SInv'
  BY SessionStutters DEF TypeOK, SInv
<1>2. TypeOK'
  BY <1>1 DEF TypeOK, SInv, Settings, Contents, Names, Places, Writer!Outputs, SessionTypeOK,
            FoundContent
<1>3. Hosted' /\ HostOkMeansArchive'
  BY DEF TypeOK, Hosted, HostOkMeansArchive, OkMeansArchive, NotClosed
<1>4. Prepared' /\ GuestStarts'
  BY DEF TypeOK, Prepared, GuestStarts, Past, LastSteps, LateSteps, TheWorkFolder,
            Hosted, Settings, Names
<1>5. Verified' /\ ProcmonGenuine' /\ GenuineMonitored' /\ PartialOnlyInterrupted'
  BY DEF TypeOK, Verified, ProcmonGenuine, GenuineMonitored, PartialOnlyInterrupted, Settings, Names,
         FoundContent, Hosted, SessionPhases
<1> QED
  BY <1>1, <1>2, <1>3, <1>4, <1>5 DEF SInv

\* Nothing is copied yet.
LEMMA FindProcmonInv ==
    ASSUME IInv, FindProcmon
    PROVE  IInv'
<1> USE DEF IInv, FindProcmon, At, Put, sessionVars, options, monitor, archive, launched,
            program, procmon, folders, vm
<1>1. SInv'
  BY SessionStutters DEF TypeOK, SInv
<1>2. TypeOK'
  BY <1>1 DEF TypeOK, SInv, Settings, Contents, Names, Places, Writer!Outputs, SessionTypeOK,
            FoundContent
<1>3. Hosted' /\ HostOkMeansArchive'
  BY DEF TypeOK, Hosted, HostOkMeansArchive, OkMeansArchive, NotClosed
<1>4. Prepared' /\ GuestStarts'
  BY DEF TypeOK, Prepared, GuestStarts, Past, LastSteps, LateSteps, TheWorkFolder,
            Hosted, Settings, Names
<1>5. Verified' /\ ProcmonGenuine' /\ GenuineMonitored' /\ PartialOnlyInterrupted'
  BY DEF TypeOK, Verified, ProcmonGenuine, GenuineMonitored, PartialOnlyInterrupted, Settings, Names,
         FoundContent, Hosted, SessionPhases
<1> QED
  BY <1>1, <1>2, <1>3, <1>4, <1>5 DEF SInv

\* The file is partial while it is saved.
LEMMA CreateDownloadInv ==
    ASSUME IInv, CreateDownload
    PROVE  IInv'
<1> USE DEF IInv, CreateDownload, At, Put, sessionVars, options, monitor, archive, launched,
            program, procmon, folders, vm
<1>1. SInv'
  BY SessionStutters DEF TypeOK, SInv
<1>2. TypeOK'
  BY <1>1 DEF TypeOK, SInv, Settings, Contents, Names, Places, Writer!Outputs, SessionTypeOK,
            FoundContent
<1>3. Hosted' /\ HostOkMeansArchive'
  BY DEF TypeOK, Hosted, HostOkMeansArchive, OkMeansArchive, NotClosed
<1>4. Prepared' /\ GuestStarts'
  BY DEF TypeOK, Prepared, GuestStarts, Past, LastSteps, LateSteps, TheWorkFolder,
            Hosted, Settings, Names
<1>5. Verified' /\ ProcmonGenuine' /\ GenuineMonitored' /\ PartialOnlyInterrupted'
  BY DEF TypeOK, Verified, ProcmonGenuine, GenuineMonitored, PartialOnlyInterrupted, Settings, Names,
         FoundContent, Hosted, SessionPhases
<1> QED
  BY <1>1, <1>2, <1>3, <1>4, <1>5 DEF SInv

\* What is saved is whole, unless another instance saves as well.
LEMMA SaveDownloadInv ==
    ASSUME IInv, SaveDownload
    PROVE  IInv'
<1> USE DEF IInv, SaveDownload, At, Put, sessionVars, options, monitor, archive, launched,
            program, procmon, folders, vm
<1>1. SInv'
  BY SessionStutters DEF TypeOK, SInv
<1>2. TypeOK'
  BY <1>1 DEF TypeOK, SInv, Settings, Contents, Names, Places, Writer!Outputs, SessionTypeOK,
            FoundContent
<1>3. Hosted' /\ HostOkMeansArchive'
  BY DEF TypeOK, Hosted, HostOkMeansArchive, OkMeansArchive, NotClosed
<1>4. Prepared' /\ GuestStarts'
  BY DEF TypeOK, Prepared, GuestStarts, Past, LastSteps, LateSteps, TheWorkFolder,
            Hosted, Settings, Names
<1>5. Verified' /\ ProcmonGenuine' /\ GenuineMonitored' /\ PartialOnlyInterrupted'
  BY DEF TypeOK, Verified, ProcmonGenuine, GenuineMonitored, PartialOnlyInterrupted, Settings, Names,
         FoundContent, Hosted, SessionPhases
<1> QED
  BY <1>1, <1>2, <1>3, <1>4, <1>5 DEF SInv

\* What was verified is whole, unless another instance empties it.
LEMMA VerifyInv ==
    ASSUME IInv, Verify
    PROVE  IInv'
<1> USE DEF IInv, Verify, At, Put, sessionVars, options, monitor, archive, launched,
            program, procmon, folders, vm
<1>1. SInv'
  BY SessionStutters DEF TypeOK, SInv
<1>2. TypeOK'
  BY <1>1 DEF TypeOK, SInv, Settings, Contents, Names, Places, Writer!Outputs, SessionTypeOK,
            FoundContent
<1>3. Hosted' /\ HostOkMeansArchive'
  BY DEF TypeOK, Hosted, HostOkMeansArchive, OkMeansArchive, NotClosed
<1>4. Prepared' /\ GuestStarts'
  BY DEF TypeOK, Prepared, GuestStarts, Past, LastSteps, LateSteps, TheWorkFolder,
            Hosted, Settings, Names
<1>5. Verified' /\ ProcmonGenuine' /\ GenuineMonitored' /\ PartialOnlyInterrupted'
  BY DEF TypeOK, Verified, ProcmonGenuine, GenuineMonitored, PartialOnlyInterrupted, Settings, Names,
         FoundContent, Hosted, SessionPhases
<1> QED
  BY <1>1, <1>2, <1>3, <1>4, <1>5 DEF SInv

\* What was verified is copied.
LEMMA CopyProcmonInv ==
    ASSUME IInv, CopyProcmon
    PROVE  IInv'
<1> USE DEF IInv, CopyProcmon, At, Put, sessionVars, options, monitor, archive, launched,
            program, procmon, folders, vm
<1>1. SInv'
  BY SessionStutters DEF TypeOK, SInv
<1>2. TypeOK'
  BY <1>1 DEF TypeOK, SInv, Settings, Contents, Names, Places, Writer!Outputs, SessionTypeOK,
            FoundContent
<1>3. Hosted' /\ HostOkMeansArchive'
  BY DEF TypeOK, Hosted, HostOkMeansArchive, OkMeansArchive, NotClosed
<1>4. Prepared' /\ GuestStarts'
  BY DEF TypeOK, Prepared, GuestStarts, Past, LastSteps, LateSteps, TheWorkFolder,
            Hosted, Settings, Names
<1>5. Verified' /\ ProcmonGenuine' /\ GenuineMonitored' /\ PartialOnlyInterrupted'
  BY DEF TypeOK, Verified, ProcmonGenuine, GenuineMonitored, PartialOnlyInterrupted, Settings, Names,
         FoundContent, Hosted, SessionPhases
<1> QED
  BY <1>1, <1>2, <1>3, <1>4, <1>5 DEF SInv

\* The executable is copied under its name, or its folder is shared.
LEMMA CopyProcessInv ==
    ASSUME IInv, CopyProcess
    PROVE  IInv'
<1> USE DEF IInv, CopyProcess, At, Put, sessionVars, options, monitor, archive, launched,
            program, procmon, folders, vm
<1>1. SInv'
  BY SessionStutters DEF TypeOK, SInv
<1>2. TypeOK'
  BY <1>1 DEF TypeOK, SInv, Settings, Contents, Names, Places, Writer!Outputs, SessionTypeOK,
            FoundContent
<1>3. Hosted' /\ HostOkMeansArchive'
  BY DEF TypeOK, Hosted, HostOkMeansArchive, OkMeansArchive, NotClosed
<1>4. Prepared' /\ GuestStarts'
  BY DEF TypeOK, Prepared, GuestStarts, Past, LastSteps, LateSteps, TheWorkFolder,
            Hosted, Settings, Names
<1>5. Verified' /\ ProcmonGenuine' /\ GenuineMonitored' /\ PartialOnlyInterrupted'
  BY DEF TypeOK, Verified, ProcmonGenuine, GenuineMonitored, PartialOnlyInterrupted, Settings, Names,
         FoundContent, Hosted, SessionPhases
<1> QED
  BY <1>1, <1>2, <1>3, <1>4, <1>5 DEF SInv

\* The script is the last file.
LEMMA WriteScriptInv ==
    ASSUME IInv, WriteScript
    PROVE  IInv'
<1> USE DEF IInv, WriteScript, At, Put, sessionVars, options, monitor, archive, launched,
            program, procmon, folders, vm
<1>1. SInv'
  BY SessionStutters DEF TypeOK, SInv
<1>2. TypeOK'
  BY <1>1 DEF TypeOK, SInv, Settings, Contents, Names, Places, Writer!Outputs, SessionTypeOK,
            FoundContent
<1>3. Hosted' /\ HostOkMeansArchive'
  BY DEF TypeOK, Hosted, HostOkMeansArchive, OkMeansArchive, NotClosed
<1>4. Prepared' /\ GuestStarts'
  BY DEF TypeOK, Prepared, GuestStarts, Past, LastSteps, LateSteps, TheWorkFolder,
            Hosted, Settings, Names
<1>5. Verified' /\ ProcmonGenuine' /\ GenuineMonitored' /\ PartialOnlyInterrupted'
  BY DEF TypeOK, Verified, ProcmonGenuine, GenuineMonitored, PartialOnlyInterrupted, Settings, Names,
         FoundContent, Hosted, SessionPhases
<1> QED
  BY <1>1, <1>2, <1>3, <1>4, <1>5 DEF SInv

\* The work folder stays as it is.
LEMMA WriteConfigurationInv ==
    ASSUME IInv, WriteConfiguration
    PROVE  IInv'
<1> USE DEF IInv, WriteConfiguration, At, Put, sessionVars, options, monitor, archive, launched,
            program, procmon, folders, vm
<1>1. SInv'
  BY SessionStutters DEF TypeOK, SInv
<1>2. TypeOK'
  BY <1>1 DEF TypeOK, SInv, Settings, Contents, Names, Places, Writer!Outputs, SessionTypeOK,
            FoundContent
<1>3. Hosted' /\ HostOkMeansArchive'
  BY DEF TypeOK, Hosted, HostOkMeansArchive, OkMeansArchive, NotClosed
<1>4. Prepared' /\ GuestStarts'
  BY DEF TypeOK, Prepared, GuestStarts, Past, LastSteps, LateSteps, TheWorkFolder,
            Hosted, Settings, Names
<1>5. Verified' /\ ProcmonGenuine' /\ GenuineMonitored' /\ PartialOnlyInterrupted'
  BY DEF TypeOK, Verified, ProcmonGenuine, GenuineMonitored, PartialOnlyInterrupted, Settings, Names,
         FoundContent, Hosted, SessionPhases
<1> QED
  BY <1>1, <1>2, <1>3, <1>4, <1>5 DEF SInv

\* The sandbox boots with everything prepared.
LEMMA StartSandboxInv ==
    ASSUME IInv, StartSandbox
    PROVE  IInv'
<1> USE DEF IInv, StartSandbox, At, Put, sessionVars, options, monitor, archive, launched,
            program, procmon, folders, vm
<1>1. SInv'
  BY SessionStutters DEF TypeOK, SInv
<1>2. TypeOK'
  BY <1>1 DEF TypeOK, SInv, Settings, Contents, Names, Places, Writer!Outputs, SessionTypeOK,
            FoundContent
<1>3. Hosted' /\ HostOkMeansArchive'
  BY DEF TypeOK, Hosted, HostOkMeansArchive, OkMeansArchive, NotClosed
<1>4. Prepared' /\ GuestStarts'
  BY DEF TypeOK, Prepared, GuestStarts, Past, LastSteps, LateSteps, TheWorkFolder,
            Hosted, Settings, Names
<1>5. Verified' /\ ProcmonGenuine' /\ GenuineMonitored' /\ PartialOnlyInterrupted'
  BY DEF TypeOK, Verified, ProcmonGenuine, GenuineMonitored, PartialOnlyInterrupted, Settings, Names,
         FoundContent, Hosted, SessionPhases
<1> QED
  BY <1>1, <1>2, <1>3, <1>4, <1>5 DEF SInv

\* The sandbox is closed when its output is fetched.
LEMMA SandboxEndedInv ==
    ASSUME IInv, SandboxEnded
    PROVE  IInv'
<1> USE DEF IInv, SandboxEnded, At, Put, sessionVars, options, monitor, archive, launched,
            program, procmon, folders, vm
<1>1. SInv'
  BY SessionStutters DEF TypeOK, SInv
<1>2. TypeOK'
  BY <1>1 DEF TypeOK, SInv, Settings, Contents, Names, Places, Writer!Outputs, SessionTypeOK,
            FoundContent
<1>3. Hosted' /\ HostOkMeansArchive'
  BY DEF TypeOK, Hosted, HostOkMeansArchive, OkMeansArchive, NotClosed
<1>4. Prepared' /\ GuestStarts'
  BY DEF TypeOK, Prepared, GuestStarts, Past, LastSteps, LateSteps, TheWorkFolder,
            Hosted, Settings, Names
<1>5. Verified' /\ ProcmonGenuine' /\ GenuineMonitored' /\ PartialOnlyInterrupted'
  BY DEF TypeOK, Verified, ProcmonGenuine, GenuineMonitored, PartialOnlyInterrupted, Settings, Names,
         FoundContent, Hosted, SessionPhases
<1> QED
  BY <1>1, <1>2, <1>3, <1>4, <1>5 DEF SInv

\* The output of a sandbox that its guest closed is complete.
LEMMA FetchOutputInv ==
    ASSUME IInv, FetchOutput
    PROVE  IInv'
<1> USE DEF IInv, FetchOutput, At, Put, sessionVars, options, monitor, archive, launched,
            program, procmon, folders, vm
<1>1. SInv'
  BY SessionStutters DEF TypeOK, SInv
<1>2. TypeOK'
  BY <1>1 DEF TypeOK, SInv, Settings, Contents, Names, Places, Writer!Outputs, SessionTypeOK,
            FoundContent
<1>3. Hosted' /\ HostOkMeansArchive'
  BY DEF TypeOK, Hosted, HostOkMeansArchive, OkMeansArchive, NotClosed
<1>4. Prepared' /\ GuestStarts'
  BY DEF TypeOK, Prepared, GuestStarts, Past, LastSteps, LateSteps, TheWorkFolder,
            Hosted, Settings, Names
<1>5. Verified' /\ ProcmonGenuine' /\ GenuineMonitored' /\ PartialOnlyInterrupted'
  BY DEF TypeOK, Verified, ProcmonGenuine, GenuineMonitored, PartialOnlyInterrupted, Settings, Names,
         FoundContent, Hosted, SessionPhases
<1> QED
  BY <1>1, <1>2, <1>3, <1>4, <1>5 DEF SInv

\* A host that fails leaves the sandbox as it is.
LEMMA HostFailsInv ==
    ASSUME IInv, HostFails
    PROVE  IInv'
<1> USE DEF IInv, HostFails, At, Put, sessionVars, options, monitor, archive, launched,
            program, procmon, folders, vm
<1>1. SInv'
  BY SessionStutters DEF TypeOK, SInv
<1>2. TypeOK'
  BY <1>1 DEF TypeOK, SInv, Settings, Contents, Names, Places, Writer!Outputs, SessionTypeOK,
            FoundContent
<1>3. Hosted' /\ HostOkMeansArchive'
  BY DEF TypeOK, Hosted, HostOkMeansArchive, OkMeansArchive, NotClosed
<1>4. Prepared' /\ GuestStarts'
  BY DEF TypeOK, Prepared, GuestStarts, Past, LastSteps, LateSteps, TheWorkFolder,
            Hosted, Settings, Names
<1>5. Verified' /\ ProcmonGenuine' /\ GenuineMonitored' /\ PartialOnlyInterrupted'
  BY DEF TypeOK, Verified, ProcmonGenuine, GenuineMonitored, PartialOnlyInterrupted, Settings, Names,
         FoundContent, Hosted, SessionPhases
<1> QED
  BY <1>1, <1>2, <1>3, <1>4, <1>5 DEF SInv

\* So does one that is killed.
LEMMA HostKilledInv ==
    ASSUME IInv, HostKilled
    PROVE  IInv'
<1> USE DEF IInv, HostKilled, At, Put, sessionVars, options, monitor, archive, launched,
            program, procmon, folders, vm
<1>1. SInv'
  BY SessionStutters DEF TypeOK, SInv
<1>2. TypeOK'
  BY <1>1 DEF TypeOK, SInv, Settings, Contents, Names, Places, Writer!Outputs, SessionTypeOK,
            FoundContent
<1>3. Hosted' /\ HostOkMeansArchive'
  BY DEF TypeOK, Hosted, HostOkMeansArchive, OkMeansArchive, NotClosed
<1>4. Prepared' /\ GuestStarts'
  BY DEF TypeOK, Prepared, GuestStarts, Past, LastSteps, LateSteps, TheWorkFolder,
            Hosted, Settings, Names
<1>5. Verified' /\ ProcmonGenuine' /\ GenuineMonitored' /\ PartialOnlyInterrupted'
  BY DEF TypeOK, Verified, ProcmonGenuine, GenuineMonitored, PartialOnlyInterrupted, Settings, Names,
         FoundContent, Hosted, SessionPhases
<1> QED
  BY <1>1, <1>2, <1>3, <1>4, <1>5 DEF SInv

\* Everything of the last run is gone, but the temporary directory and the output.
LEMMA AgainInv ==
    ASSUME IInv, Again
    PROVE  IInv'
<1> USE DEF IInv, Again, NotClosed, EmptyFolder
<1>1. SInv'
  BY DEF TypeOK, SInv, SessionTypeOK, SessionPhases, SessionProcess, SessionVerdict, OkMeansArchive,
         Alive, Monitor!Phases, Writer!Outputs
<1>2. TypeOK'
  <2>1. work' \in [Names -> Contents]
    BY DEF Contents
  <2>2. runs' \in 0 .. (MaxRuns + 1)
    BY MaxRunsAssumption DEF TypeOK
  <2> QED
    BY <1>1, <2>1, <2>2 DEF TypeOK, SInv
<1>3. Hosted' /\ HostOkMeansArchive'
  BY DEF Hosted, HostOkMeansArchive
<1>4. Prepared' /\ GuestStarts'
  BY DEF Prepared, GuestStarts, Past, LastSteps, LateSteps
<1>5. Verified' /\ ProcmonGenuine' /\ GenuineMonitored' /\ PartialOnlyInterrupted'
  BY DEF Verified, ProcmonGenuine, GenuineMonitored, PartialOnlyInterrupted, Names
<1> QED
  BY <1>1, <1>2, <1>3, <1>4, <1>5 DEF SInv

-----------------------------------------------------------------------------
(* The sandbox, and the other instance.                                    *)

\* With one folder mapped and everything in it, and only then, the session starts.
LEMMA BootInv ==
    ASSUME IInv, Boot
    PROVE  IInv'
<1> USE DEF IInv, Boot, monitor, archive, program, procmon, folders
<1>1. SInv'
  BY DEF TypeOK, SInv, SessionTypeOK, SessionPhases, SessionProcess, SessionVerdict, OkMeansArchive,
         Alive, Hosted, Seen
<1>2. TypeOK'
  BY <1>1 DEF TypeOK, SInv
<1>3. Hosted' /\ HostOkMeansArchive'
  BY DEF TypeOK, Hosted, HostOkMeansArchive
<1>a. pc = "off" /\ work["launch.ps1"] = "script"
  BY DEF Hosted, Prepared, Past
<1>4. Prepared' /\ GuestStarts'
  <2>1. PICK m \in mapped :
           /\ m.sandbox = "workFolder"
           /\ IF m.host # "work"
              THEN UNCHANGED <<pc, image, process>>
              ELSE CASE work["dynstaller.exe"] = "self" ->
                          pc' = "spawn" /\ image' = Seen(m) /\ UNCHANGED process
                     [] work["dynstaller.exe"] = "process" ->
                          process' = "running" /\ UNCHANGED <<pc, image>>
                     [] OTHER -> UNCHANGED <<pc, image, process>>
    BY <1>a
  <2>2. CASE settings.share
    <3>1. ~Seen(m)
      BY <2>2 DEF Seen, Prepared, Past
    <3> QED
      BY <1>a, <2>1, <2>2, <3>1 DEF Prepared, Past, GuestStarts
  <2>3. CASE ~settings.share /\ settings.name = "dynstaller.exe"
    <3>1. work["dynstaller.exe"] = "process"
      BY <2>3 DEF Prepared, Past
    <3> QED
      BY <1>a, <2>1, <2>3, <3>1 DEF Prepared, Past, GuestStarts
  <2>4. CASE ~settings.share /\ settings.name # "dynstaller.exe"
    <3>1. mapped = {TheWorkFolder} /\ work["dynstaller.exe"] = "self"
      BY <2>4 DEF Prepared, Past
    <3>2. Seen(TheWorkFolder) <=> work[settings.name] = "process"
      BY <2>4, <3>1 DEF Seen, Prepared, Past, TheWorkFolder
    <3>3. work[settings.name] = "process" <=> settings.name # "launch.ps1"
      BY <1>a, <2>4 DEF Prepared, Past
    <3>4. m = TheWorkFolder /\ m.host = "work"
      BY <3>1 DEF TheWorkFolder
    <3> QED
      BY <1>a, <2>1, <2>4, <3>1, <3>2, <3>3, <3>4 DEF Prepared, Past, GuestStarts
  <2> QED
    BY <2>2, <2>3, <2>4
<1>6. Verified' /\ ProcmonGenuine' /\ GenuineMonitored' /\ PartialOnlyInterrupted'
  BY DEF Verified, ProcmonGenuine, GenuineMonitored, PartialOnlyInterrupted
<1> QED
  BY <1>1, <1>2, <1>3, <1>4, <1>6 DEF SInv

\* The guest is closed by itself after a verdict only.
LEMMA CloseInv ==
    ASSUME IInv, GuestHalts \/ SandboxCloses
    PROVE  IInv'
<1>1. PICK who \in {"guest", "outside"} :
          /\ Close(who) /\ sandbox \in {"booting", "up"}
          /\ who = "guest" => halting = "yes"
  BY DEF GuestHalts, SandboxCloses
<1> USE <1>1 DEF IInv, Close, options, monitor, archive, program, procmon, folders
<1>2. SInv'
  BY DEF TypeOK, SInv, SessionTypeOK, SessionPhases, SessionProcess, SessionVerdict, OkMeansArchive, Alive
<1>3. TypeOK'
  BY <1>2 DEF TypeOK, SInv
<1>4. closed'.by = who
  OBVIOUS
<1>5. Hosted' /\ HostOkMeansArchive'
  BY <1>4 DEF TypeOK, Hosted, HostOkMeansArchive, SessionVerdict, SessionTypeOK, Alive
<1>6. Prepared' /\ GuestStarts'
  BY DEF TypeOK, Prepared, Past, GuestStarts
<1>7. Verified' /\ ProcmonGenuine' /\ GenuineMonitored' /\ PartialOnlyInterrupted'
  BY DEF Verified, ProcmonGenuine, GenuineMonitored, PartialOnlyInterrupted
<1> QED
  BY <1>2, <1>3, <1>5, <1>6, <1>7 DEF SInv

\* Another instance empties the file, and nothing else of this one.
LEMMA RivalInv ==
    ASSUME IInv, Rival
    PROVE  IInv'
<1> USE DEF IInv, Rival, RivalAsks, RivalCreates, RivalSaves, RivalBreaks, RivalOther,
            program, folders, vm
<1>1. SInv'
  BY SessionStutters DEF TypeOK, SInv
<1>2. TypeOK'
  BY <1>1 DEF TypeOK, SInv
<1>3. Hosted' /\ HostOkMeansArchive'
  BY DEF Hosted, HostOkMeansArchive, sessionVars, options, launched
<1>4. Prepared' /\ GuestStarts'
  BY DEF Prepared, Past, GuestStarts, sessionVars, options, launched
<1>5. Verified' /\ ProcmonGenuine' /\ GenuineMonitored' /\ PartialOnlyInterrupted'
  BY DEF TypeOK, Verified, ProcmonGenuine, GenuineMonitored, PartialOnlyInterrupted, sessionVars,
         options, monitor
<1> QED
  BY <1>1, <1>2, <1>3, <1>4, <1>5 DEF SInv

-----------------------------------------------------------------------------
(* The theorems.                                                           *)

LEMMA StepInv == IInv /\ [Next]_vars => IInv'
<1> SUFFICES ASSUME IInv, [Next]_vars PROVE IInv'
  OBVIOUS
<1>1. CASE HostProceeds
  BY <1>1, MakeWorkFolderInv, CopySelfInv, CopyCertInv, FindProcmonInv, CreateDownloadInv,
     SaveDownloadInv, VerifyInv, CopyProcmonInv, CopyProcessInv, WriteScriptInv,
     WriteConfigurationInv, StartSandboxInv, SandboxEndedInv, FetchOutputInv DEF HostProceeds
<1>2. CASE HostFails \/ HostKilled \/ Again
  BY <1>2, HostFailsInv, HostKilledInv, AgainInv
<1>3. CASE Sandbox \/ Rival \/ Guest
  BY <1>3, BootInv, CloseInv, RivalInv, GuestInv DEF Sandbox
<1>4. CASE UNCHANGED vars
  <2> USE <1>4 DEF IInv, vars, hostVars, program, procmon, folders, vm
  <2>1. SInv'
    BY SessionStutters DEF TypeOK, SInv
  <2>2. TypeOK'
    BY <2>1 DEF TypeOK, SInv
  <2>3. Hosted' /\ HostOkMeansArchive' /\ Prepared' /\ GuestStarts'
    BY DEF Hosted, HostOkMeansArchive, Prepared, Past, GuestStarts, sessionVars, options, archive, launched
  <2>4. Verified' /\ ProcmonGenuine' /\ GenuineMonitored' /\ PartialOnlyInterrupted'
    BY DEF Verified, ProcmonGenuine, GenuineMonitored, PartialOnlyInterrupted, sessionVars, options,
           monitor
  <2> QED
    BY <2>1, <2>2, <2>3, <2>4 DEF SInv
<1> QED
  BY <1>1, <1>2, <1>3, <1>4 DEF Next

\* The invariant that the other theorems follow from.
THEOREM Inductive == Spec => []IInv
BY InitInv, StepInv, PTL DEF Spec

\* Every variable of the sessions, the host and the sandbox keeps to its values.
THEOREM TypeCorrect == Spec => []TypeOK
<1>1. IInv => TypeOK
  BY DEF IInv
<1> QED
  BY <1>1, Inductive, PTL

\* No session lets its process run before its monitor has started or after it
\* was stopped.
THEOREM ProcessIsMonitored == Spec => []RunsMonitored
<1>1. IInv => RunsMonitored
  BY DEF IInv, TypeOK, SessionTypeOK, SessionPhases, SessionProcess, RunsMonitored, Alive
<1> QED
  BY <1>1, Inductive, PTL

\* A session that returns Ok has packed what a stopped monitor says.
THEOREM SessionSucceeds == Spec => []OkMeansArchive
<1>1. IInv => OkMeansArchive
  BY DEF IInv
<1> QED
  BY <1>1, Inductive, PTL

\* A host that returns Ok has the guest's complete archive, unless the sandbox
\* was closed over its head.
THEOREM HostSucceeds == Spec => []HostOkMeansArchive
<1>1. IInv => HostOkMeansArchive
  BY DEF IInv
<1> QED
  BY <1>1, Inductive, PTL

\* Everything the guest needs is in its place before the sandbox boots, exactly if
\* the executable's folder is not shared and its name replaces no file of the
\* work folder that the guest is started by, nor is replaced (wsb.rs:99-126).
THEOREM GuestAlwaysStarts == Spec => []GuestStarts
<1>1. IInv => GuestStarts
  BY DEF IInv
<1> QED
  BY <1>1, Inductive, PTL

\* An unverified Process Monitor reaches the guest by a race or in the shape of an
\* executable of that name only, and no monitor is made of it; a partial
\* download is left by an interruption only.
THEOREM ProcmonIsSound == Spec => []ProcmonSound
<1>1. IInv => ProcmonSound
  BY DEF IInv, ProcmonSound
<1> QED
  BY <1>1, Inductive, PTL
-----------------------------------------------------------------------------
(* What a broken download does to later runs.                              *)

\* A part of Process Monitor is in the temporary directory, there is no other,
\* and no instance of the program is about to download it.
DownloadBroken ==
    /\ method = "Procmon" /\ settings.elsewhere = "absent"
    /\ temp = "partial" /\ rival \in {"idle", "done", "broken"}
    /\ host \in {"mkdir", "self", "cert", "find", "verify", "returned", "killed"}
    /\ host = "verify" => found = "temp"

\* From then on every run of the program ends at the hash, before it has copied
\* Process Monitor or started a sandbox: a file that is there is never
\* downloaded again (procmon.rs:271-303 and 337).
THEOREM BrokenDownloadStays == Spec => [](DownloadBroken => []DownloadBroken)
<1>1. DownloadBroken /\ [Next]_vars => DownloadBroken'
  <2> SUFFICES ASSUME DownloadBroken, [Next]_vars PROVE DownloadBroken'
    OBVIOUS
  <2> USE DEF DownloadBroken
  <2>1. CASE HostProceeds
    BY <2>1 DEF HostProceeds, At, MakeWorkFolder, CopySelf, CopyCert, FindProcmon, CreateDownload,
       SaveDownload, Verify, FoundContent, CopyProcmon, CopyProcess, WriteScript, WriteConfiguration,
       StartSandbox, SandboxEnded, FetchOutput, sessionVars, options, procmon
  <2>2. CASE HostFails \/ HostKilled \/ Again
    BY <2>2 DEF HostFails, HostKilled, Again, sessionVars, options
  <2>3. CASE Sandbox
    BY <2>3 DEF Sandbox, Boot, GuestHalts, SandboxCloses, Close, options, program, procmon
  <2>4. CASE Rival
    BY <2>4 DEF Rival, RivalAsks, RivalCreates, RivalSaves, RivalBreaks, RivalOther, sessionVars, options,
       program
  <2>5. CASE Guest
    <3>1. UNCHANGED <<method, hostVars>>
      BY <2>5 DEF Guest, SessionNext, Proceeds, Fails, Spawn, NewMonitor, Start, Started, Resume, Wait, Stop,
         Stopped, OpenOutput, Pack, Shutdown, MonitorStarts, MonitorStops, Enter, ProcessExits, Killed,
         options
    <3> QED
      BY <3>1 DEF hostVars, program, procmon
  <2>6. CASE UNCHANGED vars
    BY <2>6 DEF vars, sessionVars, options, hostVars, program, procmon
  <2> QED
    BY <2>1, <2>2, <2>3, <2>4, <2>5, <2>6 DEF Next
<1> QED
  BY <1>1, PTL DEF Spec
=============================================================================
