---------------------------- MODULE SandboxHost -----------------------------
(***************************************************************************)
(* src/wsb.rs: HostLaunch, which prepares a work folder, starts a sandbox  *)
(* whose guest runs a Session of its own, waits for the sandbox and        *)
(* fetches the archive; with resolve_procmon_path and download_procmon of  *)
(* src/monitor/procmon.rs, whose file in the temporary directory outlives  *)
(* the run and is there for every instance of the program.  A Session      *)
(* without a host is a behaviour of this module as well.                   *)
(***************************************************************************)
EXTENDS Session, Naturals

CONSTANT MaxRuns    \* bound on how often the program is run as a host

ASSUME MaxRunsAssumption == MaxRuns \in Nat

VARIABLES
    host,       \* the call Hoster is at; "none" for a Session without a host
    hostVerdict, \* what it returned
    settings,   \* HostOptions, and where Procmon64.exe is besides the temporary directory
    temp,       \* Procmon64.exe in the temporary directory
    found,      \* which of the two resolve_procmon_path has found
    work,       \* the host's work folder, the output aside
    mapped,     \* the mapped folders of the configuration
    sandboxProcess, \* LaunchOptions.process as the guest gets it
    sandbox,    \* "off", "booting", "up", "closed"
    closed,     \* history: by whom, and what WindowsSandbox.exe reports
    hostOutput, \* the file at PackerOptions.output of the host
    runs,       \* history: how often the program was run as a host
    interrupted, \* history: a download broke off
    rival       \* another instance of the program, downloading

program == <<host, hostVerdict>>
procmon == <<temp, found, interrupted, rival>>
folders == <<work, mapped, sandboxProcess>>
vm      == <<sandbox, closed>>
hostVars == <<program, settings, procmon, folders, vm, hostOutput, runs>>
vars == <<sessionVars, hostVars>>

-----------------------------------------------------------------------------
\* What a file of the work folder may hold.
Contents == {"absent", "self", "cert", "whole", "partial", "other", "process", "script"}

\* Its names, with the process's own, which may be any of the others: what is
\* written later replaces what was there.
Names == {"dynstaller.exe", "cert.cer", "Procmon64.exe", "launch.ps1", "installer.exe"}

\* The folders of the guest are new names in its root directory.
Places == {"workFolder", "processFolder"}

EmptyFolder == [n \in Names |-> "absent"]

Settings == [cert : BOOLEAN, share : BOOLEAN, name : Names,
             elsewhere : {"absent", "whole", "other"}]

NotClosed == [by |-> "nobody", success |-> FALSE]

FreshGuest ==
    /\ pc = "off" /\ verdict = "none" /\ process = "none" /\ resumeLost = FALSE /\ halting = "no"
    /\ Monitor!Init /\ writer = "idle"

FreshHost ==
    /\ hostVerdict = "none" /\ found = "absent"
    /\ work = EmptyFolder /\ mapped = {} /\ sandboxProcess = <<>>
    /\ sandbox = "off" /\ closed = NotClosed

\* A command of the guest, given at a console.
InitGuest ==
    /\ host = "none" /\ runs = 0
    /\ command \in {"GuestLaunch", "GuestTrack"}
    /\ shutdownOnExit = FALSE /\ image \in BOOLEAN
    /\ pc = (IF command = "GuestLaunch" THEN "spawn" ELSE "new")
    /\ verdict = "none" /\ process = "none" /\ resumeLost = FALSE /\ halting = "no"
    /\ Monitor!Init /\ Writer!Init
    /\ settings = [cert |-> FALSE, share |-> FALSE, name |-> "installer.exe", elsewhere |-> "absent"]

\* HostLaunch; its guest is told to shut down, and not to overwrite.
InitHost ==
    /\ host = "mkdir" /\ runs = 1
    /\ command = "GuestLaunch" /\ shutdownOnExit = TRUE /\ image = FALSE
    /\ FreshGuest /\ output = "absent" /\ overwrite = FALSE
    /\ settings \in Settings

Init ==
    /\ InitGuest \/ InitHost
    /\ method \in {"Usn", "WinApi", "Procmon"}
    /\ FreshHost
    /\ temp = "absent" /\ interrupted = FALSE /\ rival = "idle"
    /\ hostOutput \in {"absent", "older"}

-----------------------------------------------------------------------------
(* Hoster::new.                                                            *)

At(step, next) == host = step /\ host' = next /\ UNCHANGED hostVerdict

\* std::fs::copy and std::fs::write replace what there is.
Put(name, content) == work' = [work EXCEPT ![name] = content]

\* Mutant: the guest is given the host's name of the folder.
MakeWorkFolderUnrenamed ==
    /\ At("mkdir", "self")
    /\ mapped' = {[host |-> "work", sandbox |-> "work"]}
    /\ UNCHANGED <<sessionVars, settings, procmon, work, sandboxProcess, vm, hostOutput, runs>>

MakeWorkFolder ==
    /\ At("mkdir", "self")
    /\ mapped' = {[host |-> "work", sandbox |-> "workFolder"]}
    /\ UNCHANGED <<sessionVars, settings, procmon, work, sandboxProcess, vm, hostOutput, runs>>

CopySelf ==
    /\ At("self", "cert") /\ Put("dynstaller.exe", "self")
    /\ UNCHANGED <<sessionVars, settings, procmon, mapped, sandboxProcess, vm, hostOutput, runs>>

CopyCert ==
    /\ At("cert", IF method = "Procmon" THEN "find" ELSE "process")
    /\ IF settings.cert THEN Put("cert.cer", "cert") ELSE UNCHANGED work
    /\ UNCHANGED <<sessionVars, settings, procmon, mapped, sandboxProcess, vm, hostOutput, runs>>

\* The option, the current directory and PATH, then the temporary directory.
FindProcmon ==
    /\ host = "find" /\ UNCHANGED hostVerdict
    /\ \/ settings.elsewhere # "absent" /\ found' = "elsewhere" /\ host' = "verify"
       \/ settings.elsewhere = "absent" /\ found' = "temp"
          /\ host' = IF temp = "absent" THEN "download" ELSE "verify"
    /\ UNCHANGED <<sessionVars, settings, temp, interrupted, rival, folders, vm, hostOutput, runs>>

\* The request has succeeded, and the file is created, or emptied.
CreateDownload ==
    /\ At("download", "save")
    /\ temp' = "partial"
    /\ UNCHANGED <<sessionVars, settings, found, interrupted, rival, folders, vm, hostOutput, runs>>

\* All of the body is written, though another instance may have emptied the
\* file on the way.
SaveDownload ==
    /\ At("save", "verify")
    /\ temp' \in IF rival = "saving" THEN {"partial", "whole"} ELSE {"whole"}
    /\ UNCHANGED <<sessionVars, settings, found, interrupted, rival, folders, vm, hostOutput, runs>>

FoundContent == IF found = "temp" THEN temp ELSE settings.elsewhere

\* Mutant: no hash is compared.
VerifyNothing ==
    /\ At("verify", "procmon")
    /\ UNCHANGED <<sessionVars, settings, procmon, folders, vm, hostOutput, runs>>

\* The hash is of what is read now; what is copied is read later.
Verify ==
    /\ At("verify", "procmon") /\ FoundContent = "whole"
    /\ UNCHANGED <<sessionVars, settings, procmon, folders, vm, hostOutput, runs>>

CopyProcmon ==
    /\ At("procmon", "process") /\ Put("Procmon64.exe", FoundContent)
    /\ UNCHANGED <<sessionVars, settings, procmon, mapped, sandboxProcess, vm, hostOutput, runs>>

\* Mutant: the executable is never copied.
CopyProcessShared ==
    /\ At("process", "script")
    /\ mapped' = mapped \cup {[host |-> "process", sandbox |-> "processFolder"]}
    /\ sandboxProcess' = <<IF settings.share THEN "processFolder" ELSE "workFolder", settings.name>>
    /\ UNCHANGED <<sessionVars, settings, procmon, work, vm, hostOutput, runs>>

\* Either the executable is copied, or its folder is mapped as well: to the
\* place of the work folder, while the guest looks for it at its own place.
CopyProcess ==
    /\ At("process", "script")
    /\ IF settings.share
       THEN /\ mapped' = mapped \cup {[host |-> "process", sandbox |-> "workFolder"]}
            /\ sandboxProcess' = <<"processFolder", settings.name>>
            /\ UNCHANGED work
       ELSE /\ Put(settings.name, "process")
            /\ sandboxProcess' = <<"workFolder", settings.name>>
            /\ UNCHANGED mapped
    /\ UNCHANGED <<sessionVars, settings, procmon, vm, hostOutput, runs>>

WriteScript ==
    /\ At("script", "wsb") /\ Put("launch.ps1", "script")
    /\ UNCHANGED <<sessionVars, settings, procmon, mapped, sandboxProcess, vm, hostOutput, runs>>

-----------------------------------------------------------------------------
(* Hoster::run.                                                            *)

WriteConfiguration ==
    /\ At("wsb", "start")
    /\ UNCHANGED <<sessionVars, settings, procmon, folders, vm, hostOutput, runs>>

StartSandbox ==
    /\ At("start", "wait") /\ sandbox' = "booting"
    /\ UNCHANGED <<sessionVars, settings, procmon, folders, closed, hostOutput, runs>>

SandboxEnded ==
    /\ At("wait", "fetch") /\ sandbox = "closed" /\ closed.success
    /\ UNCHANGED <<sessionVars, settings, procmon, folders, vm, hostOutput, runs>>

\* Mutant: a file that is there is kept.
FetchUnlessThere ==
    /\ host = "fetch" /\ output # "absent"
    /\ host' = "returned" /\ hostVerdict' = "ok"
    /\ hostOutput' = (IF hostOutput = "older" THEN hostOutput ELSE output)
    /\ UNCHANGED <<sessionVars, settings, procmon, folders, vm, runs>>

\* Whatever is at the host's output is replaced.
FetchOutput ==
    /\ host = "fetch" /\ output # "absent"
    /\ host' = "returned" /\ hostVerdict' = "ok" /\ hostOutput' = output
    /\ UNCHANGED <<sessionVars, settings, procmon, folders, vm, runs>>

\* Every `?` of the host; a copy may break off half way.
HostFails ==
    /\ host \notin {"none", "returned", "killed"}
    /\ host' = "returned" /\ hostVerdict' = "error"
    /\ interrupted' = (interrupted \/ host = "save")
    /\ \/ UNCHANGED hostOutput
       \/ host = "fetch" /\ output # "absent" /\ hostOutput' = "partial"
    /\ UNCHANGED <<sessionVars, settings, temp, found, rival, folders, vm, runs>>

HostKilled ==
    /\ host \notin {"none", "returned", "killed"}
    /\ host' = "killed"
    /\ interrupted' = (interrupted \/ host = "save")
    /\ UNCHANGED <<sessionVars, hostVerdict, settings, temp, found, rival>>
    /\ UNCHANGED <<folders, vm, hostOutput, runs>>

\* The program is run again, with the same options; the temporary directory
\* and the host's output are as the last run left them.
Again ==
    /\ host \in {"returned", "killed"} /\ sandbox \in {"off", "closed"}
    /\ runs < MaxRuns /\ runs' = runs + 1
    /\ host' = "mkdir" /\ hostVerdict' = "none" /\ found' = "absent"
    /\ work' = EmptyFolder /\ mapped' = {} /\ sandboxProcess' = <<>>
    /\ sandbox' = "off" /\ closed' = NotClosed
    /\ pc' = "off" /\ verdict' = "none" /\ process' = "none" /\ resumeLost' = FALSE /\ halting' = "no"
    /\ phase' = "new" /\ noted' = {} /\ writer' = "idle" /\ output' = "absent" /\ image' = FALSE
    /\ UNCHANGED <<command, shutdownOnExit, method, overwrite, settings, temp, interrupted, rival,
                   hostOutput>>

-----------------------------------------------------------------------------
(* The sandbox (external), and what its guest finds in it.                 *)

\* The mapping m, if there is another to the same place, has won.
Seen(m) ==
    \E n \in mapped :
        /\ n.sandbox = sandboxProcess[1] /\ (n.sandbox = m.sandbox => n = m)
        /\ n.host = "process" \/ work[settings.name] = "process"

\* The logon command runs launch.ps1, which starts whatever dynstaller.exe is.
Boot ==
    /\ sandbox = "booting" /\ sandbox' = "up"
    /\ \E m \in {n \in mapped : n.sandbox = "workFolder"} :
          IF m.host # "work" \/ work["launch.ps1"] # "script"
          THEN UNCHANGED <<pc, image, process>>
          ELSE CASE work["dynstaller.exe"] = "self" ->
                      pc' = "spawn" /\ image' = Seen(m) /\ UNCHANGED process
                 [] work["dynstaller.exe"] = "process" ->
                      process' = "running" /\ UNCHANGED <<pc, image>>
                 [] OTHER -> UNCHANGED <<pc, image, process>>
    /\ UNCHANGED <<command, shutdownOnExit, method, monitor, archive, resumeLost, halting, verdict,
                   program, settings, procmon, folders, closed, hostOutput, runs>>

\* With the sandbox, everything in it ends.
Close(who) ==
    /\ sandbox' = "closed"
    /\ closed' \in [by : {who}, success : BOOLEAN]
    /\ pc' = (IF Alive THEN "killed" ELSE pc)
    /\ process' = (IF process = "none" THEN "none" ELSE "exited")
    /\ UNCHANGED <<options, monitor, archive, resumeLost, halting, verdict,
                   program, settings, procmon, folders, hostOutput, runs>>

GuestHalts == sandbox = "up" /\ halting = "yes" /\ Close("guest")

\* The user closes the window, or the sandbox breaks.
SandboxCloses == sandbox \in {"booting", "up"} /\ Close("outside")

-----------------------------------------------------------------------------
(* Another instance of the program that downloads Process Monitor.         *)

RivalOther ==
    /\ host # "none" /\ method = "Procmon" /\ settings.elsewhere = "absent"
    /\ UNCHANGED <<sessionVars, program, settings, found, folders, vm, hostOutput, runs>>

RivalAsks ==
    /\ rival = "idle" /\ temp = "absent" /\ rival' = "asking"
    /\ RivalOther /\ UNCHANGED <<temp, interrupted>>

RivalCreates ==
    /\ rival = "asking" /\ rival' = "saving" /\ temp' = "partial"
    /\ RivalOther /\ UNCHANGED interrupted

RivalSaves ==
    /\ rival = "saving" /\ rival' = "done"
    /\ temp' \in IF host = "save" THEN {"partial", "whole"} ELSE {"whole"}
    /\ RivalOther /\ UNCHANGED interrupted

RivalBreaks ==
    /\ rival = "saving" /\ rival' = "broken" /\ interrupted' = TRUE
    /\ RivalOther /\ UNCHANGED temp

-----------------------------------------------------------------------------
HostProceeds ==
    \/ MakeWorkFolder \/ CopySelf \/ CopyCert
    \/ FindProcmon \/ CreateDownload \/ SaveDownload \/ Verify \/ CopyProcmon
    \/ CopyProcess \/ WriteScript
    \/ WriteConfiguration \/ StartSandbox \/ SandboxEnded \/ FetchOutput

\* A call of the host returns; that of the sandbox when the sandbox has ended.
HostReturns == HostProceeds \/ ((host = "wait" => sandbox = "closed") /\ HostFails)

Sandbox == Boot \/ GuestHalts \/ SandboxCloses

Rival == RivalAsks \/ RivalCreates \/ RivalSaves \/ RivalBreaks

\* The guest's ProcmonMonitor::new hashes the file it was given once more.
GuestVerifies ==
    pc = "new" /\ pc' = "start" /\ method = "Procmon" /\ host # "none"
        => work["Procmon64.exe"] = "whole"

Guest == SessionNext /\ GuestVerifies /\ UNCHANGED hostVars

Next == Guest \/ HostProceeds \/ HostFails \/ HostKilled \/ Again \/ Sandbox \/ Rival

\* Calls return, the sandbox boots, and a system that shuts down goes down.
Fairness ==
    /\ WF_vars(Returns /\ GuestVerifies /\ UNCHANGED hostVars)
    /\ WF_vars(HostReturns)
    /\ WF_vars(Boot) /\ WF_vars(GuestHalts)

Spec == Init /\ [][Next]_vars /\ Fairness

-----------------------------------------------------------------------------
(* Properties.                                                             *)

\* The values of the variables.
TypeOK ==
    /\ SessionTypeOK
    /\ host \in {"none", "mkdir", "self", "cert", "find", "download", "save", "verify", "procmon",
                 "process", "script", "wsb", "start", "wait", "fetch", "returned", "killed"}
    /\ hostVerdict \in {"none", "ok", "error"}
    /\ settings \in Settings
    /\ temp \in {"absent", "partial", "whole"} /\ found \in {"absent", "temp", "elsewhere"}
    /\ interrupted \in BOOLEAN /\ rival \in {"idle", "asking", "saving", "done", "broken"}
    /\ work \in [Names -> Contents]
    /\ mapped \subseteq [host : {"work", "process"}, sandbox : Places]
    /\ sandbox \in {"off", "booting", "up", "closed"}
    /\ closed \in [by : {"nobody", "guest", "outside"}, success : BOOLEAN]
    /\ hostOutput \in Writer!Outputs /\ runs \in 0 .. (MaxRuns + 1)

\* When the host succeeds, its output is a complete archive of the guest's
\* session, unless the sandbox was closed from outside: then whatever the
\* guest has written so far is fetched as well (wsb.rs:222-225).
HostOkMeansArchive ==
    hostVerdict = "ok" => hostOutput = "complete" \/ closed.by = "outside"

\* The guest's session starts and finds the executable exactly if the folder of
\* the executable is not shared, which is mapped to another place than the guest
\* is told (wsb.rs:104-115), and the executable has neither the name that the
\* program nor the one that the script has in the work folder.
GuestStarts ==
    sandbox = "up" =>
        (pc # "off" /\ image
            <=> ~settings.share /\ settings.name \notin {"dynstaller.exe", "launch.ps1"})

\* The parts of one promise: what the guest gets, what it makes a monitor of, and
\* what later runs find.
ProcmonGenuine ==
    /\ work["Procmon64.exe"] \in {"absent", "partial", "whole", "process"}
    /\ work["Procmon64.exe"] = "partial" => found = "temp" /\ rival \notin {"idle", "asking"}
    /\ work["Procmon64.exe"] = "process" => settings.name = "Procmon64.exe" /\ ~settings.share

GenuineMonitored ==
    host # "none" /\ method = "Procmon" /\ work["Procmon64.exe"] # "whole"
        => phase = "new" /\ pc # "start"

PartialOnlyInterrupted ==
    temp = "partial" => interrupted \/ host = "save" \/ rival = "saving"

\* The Process Monitor that the guest gets is the whole one, whatever an
\* interrupted run has left in the temporary directory, unless another instance
\* has emptied the file between the hash and the copy, or the executable has its
\* name and replaces it (wsb.rs:121-124); a guest that gets anything else makes
\* no monitor of it; and a part of a download is left only by one that was
\* interrupted or is under way (procmon.rs:271-303 and 337).
ProcmonSound == ProcmonGenuine /\ GenuineMonitored /\ PartialOnlyInterrupted

\* Why a host may wait for ever: the guest's session has not started, failed
\* (as it does when its Process Monitor was replaced), was killed, waits itself, or was refused the shutdown.
GuestStuck ==
    \/ pc = "off" /\ (settings.share \/ settings.name = "dynstaller.exe")
    \/ verdict = "error" \/ pc = "killed" \/ halting = "refused"
    \/ pc = "starting" /\ phase = "starting" /\ method = "Procmon"
    \/ pc = "wait" /\ process # "exited"
    \/ pc = "stopping" /\ phase = "stopping" /\ method # "Usn"

\* A host that waits for its sandbox returns, unless its guest is stuck, as
\* nothing but a successful guest or the user ends the sandbox (wsb.rs:215).
HostEnds == [](host = "wait" => <>(host # "wait" \/ []GuestStuck))
=============================================================================
