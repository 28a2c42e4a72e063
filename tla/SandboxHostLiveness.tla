------------------------- MODULE SandboxHostLiveness -------------------------
(***************************************************************************)
(* What comes to an end in SandboxHost, however often the program is run:  *)
(* the host's wait for its sandbox, and the suspension of the process that *)
(* a session has launched.                                                 *)
(*                                                                         *)
(* A session goes through a dozen calls, one after the other, so that both *)
(* proofs are chains of leads-to steps.  The action lemmas say how a step  *)
(* comes from a call to the next one; the temporal steps, from there on,   *)
(* are propositional.                                                      *)
(***************************************************************************)
EXTENDS SandboxHostProofs

\* The calls of a GuestLaunch, and the one that follows when it returns without
\* an error.
Calls == {"spawn", "new", "start", "starting", "resume", "wait", "stop", "stopping",
          "pack", "packing", "shutdown"}

NextCall == [c \in Calls |->
    CASE c = "spawn" -> "new"
      [] c = "new" -> "start"
      [] c = "start" -> "starting"
      [] c = "starting" -> "resume"
      [] c = "resume" -> "wait"
      [] c = "wait" -> "stop"
      [] c = "stop" -> "stopping"
      [] c = "stopping" -> "pack"
      [] c = "pack" -> "packing"
      [] c = "packing" -> "shutdown"
      [] c = "shutdown" -> "returned"]

\* A call can return: it does not wait, or what it waits for has happened.
Ready ==
    \/ pc \notin Waiting
    \/ pc = "starting" /\ phase = "started"
    \/ pc = "wait" /\ process = "exited"
    \/ pc = "stopping" /\ phase = "stopped"

GuestReturns == Returns /\ GuestVerifies /\ UNCHANGED hostVars

\* Where the fairness speaks of a step, the step can be taken.  This is what the
\* guards of the four actions say, and a hypothesis of the theorems only because
\* ENABLED is beyond the provers.
GuardsEnable ==
    /\ Alive /\ Ready => ENABLED <<GuestReturns>>_vars
    /\ host = "wait" /\ sandbox = "booting" => ENABLED <<Boot>>_vars
    /\ sandbox = "up" /\ halting = "yes" => ENABLED <<GuestHalts>>_vars
    /\ host = "wait" /\ sandbox = "closed" => ENABLED <<HostReturns>>_vars

-----------------------------------------------------------------------------
(* The host's wait ends.                                                   *)

\* The sandbox is not waited for any more, or it has closed.
Left == host # "wait" \/ sandbox = "closed"

\* It is waited for, and its guest is at the call c, or not there any more.
Up(c) == host = "wait" /\ sandbox = "up" /\ pc = c
Over == host = "wait" /\ sandbox = "up" /\ ~Alive

\* A step of the guest: it goes on, it ends, or it stays where it is.
LEMMA GuestSteps ==
    ASSUME NEW c \in Calls, IInv, Guest, Up(c)
    PROVE  /\ Up(c)' \/ Up(NextCall[c])' \/ Over'
           /\ Ready /\ Up(c)' => Ready'
           /\ GuestReturns => ~Up(c)'
<1> USE DEF Up, Guest
<1>1. host' = "wait" /\ sandbox' = "up"
  BY DEF hostVars, program, vm
<1>2. NextCall[c] # c /\ "returned" # c /\ "killed" # c
  BY DEF Calls, NextCall
<1>3. CASE Returns
  <2>1. command = "GuestLaunch" /\ shutdownOnExit
    BY DEF IInv, Hosted
  <2>2. pc' = NextCall[c] \/ pc' = "returned"
    BY <1>3, <2>1 DEF Calls, NextCall, Returns, Proceeds, Fails, Goto, Return, Waiting,
       Spawn, NewMonitor, Start, Started, Resume, Wait, Stop, Stopped, OpenOutput, Pack, Shutdown
  <2> QED
    BY <1>1, <1>2, <2>2 DEF Over, Alive
<1>4. CASE ~Returns /\ (Fails \/ Killed)
  <2>1. pc' \in {"returned", "killed"}
    BY <1>4 DEF Fails, Killed, Return
  <2> QED
    BY <1>1, <1>2, <1>4, <2>1 DEF Over, Alive, GuestReturns
<1>5. CASE ~Returns /\ (MonitorStarts \/ MonitorStops \/ ProcessExits)
  <2>1. pc' = c
    BY <1>5 DEF MonitorStarts, MonitorStops, ProcessExits
  <2>2. Ready => Ready'
    BY <1>5, <2>1 DEF Ready, MonitorStarts, MonitorStops, ProcessExits,
       Monitor!StartReturns, Monitor!StopReturns, monitor
  <2> QED
    BY <1>1, <1>5, <2>1, <2>2 DEF GuestReturns
<1>6. ~Enter
  BY DEF Enter, Calls
<1> QED
  BY <1>3, <1>4, <1>5, <1>6 DEF SessionNext, Returns

\* Nobody else moves the guest, but for ending the sandbox.
LEMMA OthersStep ==
    ASSUME IInv, [Next]_vars, ~Guest, host = "wait", sandbox = "up"
    PROVE  \/ Left'
           \/ UNCHANGED <<host, sandbox, sessionVars>>
<1>1. CASE HostProceeds
  BY <1>1 DEF HostProceeds, At, MakeWorkFolder, CopySelf, CopyCert, FindProcmon, CreateDownload,
     SaveDownload, Verify, CopyProcmon, CopyProcess, WriteScript, WriteConfiguration, StartSandbox,
     SandboxEnded, FetchOutput
<1>2. CASE HostFails \/ HostKilled \/ Again
  BY <1>2 DEF HostFails, HostKilled, Again, Left
<1>3. CASE Sandbox
  BY <1>3 DEF Sandbox, Boot, GuestHalts, SandboxCloses, Close, Left
<1>4. CASE Rival
  BY <1>4 DEF Rival, RivalAsks, RivalCreates, RivalSaves, RivalBreaks, RivalOther, program, vm
<1>5. CASE UNCHANGED vars
  BY <1>5 DEF vars, hostVars, program, vm
<1> QED
  BY <1>1, <1>2, <1>3, <1>4, <1>5 DEF Next

\* One step, whoever takes it.
LEMMA CallSteps ==
    ASSUME NEW c \in Calls, IInv, [Next]_vars, Up(c)
    PROVE  /\ Up(c)' \/ Up(NextCall[c])' \/ Over' \/ Left'
           /\ Ready /\ Up(c)' => Ready'
           /\ GuestReturns => ~Up(c)'
<1>1. CASE Guest
  BY <1>1, GuestSteps
<1>2. CASE ~Guest
  <2>1. Left' \/ UNCHANGED <<host, sandbox, sessionVars>>
    BY <1>2, OthersStep DEF Up
  <2>2. ~GuestReturns
    BY <1>2 DEF GuestReturns, Guest, Returns, SessionNext
  <2>3. Left' => ~Up(c)'
    BY DEF Left, Up
  <2> QED
    BY <2>1, <2>2, <2>3 DEF Up, Ready, sessionVars, monitor, launched
<1> QED
  BY <1>1, <1>2

\* What a call may wait for, for ever.
LEMMA UnreadyIsStuck ==
    ASSUME NEW c \in Calls, IInv, Up(c), ~Ready
    PROVE  GuestStuck
BY DEF IInv, SessionPhases, Up, Calls, Ready, Waiting, GuestStuck

\* How the guest comes from the call c, returning fairly, to the call d.
Passes(c, d) ==
    /\ IInv /\ [Next]_vars /\ Up(c) => Up(c)' \/ Up(d)' \/ Over' \/ Left'
    /\ IInv /\ [Next]_vars /\ Up(c) /\ Ready /\ Up(c)' => Ready'
    /\ IInv /\ <<GuestReturns>>_vars /\ [Next]_vars /\ Up(c) => ~Up(c)'
    /\ IInv /\ Up(c) => Ready \/ GuestStuck
    /\ Up(c) /\ Ready /\ GuardsEnable => ENABLED <<GuestReturns>>_vars

LEMMA CallPasses ==
    ASSUME NEW c \in Calls
    PROVE  Passes(c, NextCall[c])
<1>1. Up(c) => Alive
  BY DEF Up, Calls, Alive
<1> QED
  BY <1>1, CallSteps, UnreadyIsStuck DEF Passes, GuardsEnable

\* A session that is over takes no step any more.
LEMMA OverStays ==
    ASSUME SessionNext, ~Alive
    PROVE  UNCHANGED <<pc, halting>>
BY DEF SessionNext, Alive, Proceeds, Fails, Spawn, NewMonitor, Start, Started, Resume, Wait, Stop,
       Stopped, OpenOutput, Pack, Shutdown, MonitorStarts, MonitorStops, Enter, ProcessExits, Killed,
       launched

\* A guest that is over has told its system to halt, or leaves the host waiting.
LEMMA OverLeads == Spec /\ []GuardsEnable => (Over ~> (Left \/ []GuestStuck))
<1> DEFINE Halts == halting = "yes"
<1>1. IInv /\ [Next]_vars /\ Over => Over' \/ Left'
  <2> SUFFICES ASSUME IInv, [Next]_vars, Over PROVE Over' \/ Left'
    OBVIOUS
  <2>1. CASE Guest
    BY <2>1, OverStays DEF Over, Guest, hostVars, program, vm, Alive
  <2>2. CASE ~Guest
    BY <2>2, OthersStep DEF Over, Alive, sessionVars
  <2> QED
    BY <2>1, <2>2
<1>2. IInv /\ [Next]_vars /\ Over /\ Halts => Left' \/ Halts'
  <2> SUFFICES ASSUME IInv, [Next]_vars, Over, Halts PROVE Left' \/ Halts'
    OBVIOUS
  <2>1. CASE Guest
    BY <2>1, OverStays DEF Over, Guest
  <2>2. CASE ~Guest
    BY <2>2, OthersStep DEF Over, sessionVars, launched
  <2> QED
    BY <2>1, <2>2
<1>3. <<GuestHalts>>_vars => Left'
  BY DEF GuestHalts, Close, Left
<1>4. IInv /\ Over => Halts \/ GuestStuck
  BY DEF IInv, TypeOK, SessionTypeOK, SessionVerdict, Hosted, Prepared, Over, Alive, GuestStuck
<1>5. Over /\ Halts /\ GuardsEnable => ENABLED <<GuestHalts>>_vars
  BY DEF Over, GuardsEnable
<1> QED
  BY <1>1, <1>2, <1>3, <1>4, <1>5, Inductive, PTL DEF Spec, Fairness

\* A sandbox boots, with a session or without.
LEMMA BootLeads ==
    Spec /\ []GuardsEnable =>
        (host = "wait" /\ sandbox = "booting" ~> (Up("spawn") \/ Over \/ Left))
<1> DEFINE Booting == host = "wait" /\ sandbox = "booting"
<1>1. IInv /\ [Next]_vars /\ Booting => Booting' \/ Up("spawn")' \/ Over' \/ Left'
  <2> SUFFICES ASSUME IInv, [Next]_vars, Booting PROVE Booting' \/ Up("spawn")' \/ Over' \/ Left'
    OBVIOUS
  <2>1. CASE HostProceeds
    BY <2>1 DEF HostProceeds, At, MakeWorkFolder, CopySelf, CopyCert, FindProcmon, CreateDownload,
       SaveDownload, Verify, CopyProcmon, CopyProcess, WriteScript, WriteConfiguration, StartSandbox,
       SandboxEnded, FetchOutput
  <2>2. CASE HostFails \/ HostKilled \/ Again
    BY <2>2 DEF HostFails, HostKilled, Again, Left
  <2>3. CASE Boot
    BY <2>3 DEF IInv, Hosted, Boot, Up, Over, Alive, program
  <2>4. CASE GuestHalts \/ SandboxCloses
    BY <2>4 DEF GuestHalts, SandboxCloses, Close, Left
  <2>5. CASE Guest \/ Rival \/ UNCHANGED vars
    BY <2>5 DEF Guest, Rival, RivalAsks, RivalCreates, RivalSaves, RivalBreaks, RivalOther,
       vars, hostVars, program, vm
  <2> QED
    BY <2>1, <2>2, <2>3, <2>4, <2>5 DEF Next, Sandbox
<1>2. IInv /\ <<Boot>>_vars /\ Booting => Up("spawn")' \/ Over' \/ Left'
  BY DEF IInv, Hosted, Boot, Up, Over, Alive, program
<1>3. Booting /\ GuardsEnable => ENABLED <<Boot>>_vars
  BY DEF GuardsEnable
<1> QED
  BY <1>1, <1>2, <1>3, Inductive, PTL DEF Spec, Fairness

\* The host notices that its sandbox has closed.
LEMMA ClosedLeads ==
    Spec /\ []GuardsEnable => (host = "wait" /\ sandbox = "closed" ~> host # "wait")
<1> DEFINE Closed == host = "wait" /\ sandbox = "closed"
<1>1. [Next]_vars /\ Closed => Closed' \/ (host # "wait")'
  <2> SUFFICES ASSUME [Next]_vars, Closed PROVE Closed' \/ (host # "wait")'
    OBVIOUS
  <2>1. CASE HostProceeds
    BY <2>1 DEF HostProceeds, At, MakeWorkFolder, CopySelf, CopyCert, FindProcmon, CreateDownload,
       SaveDownload, Verify, CopyProcmon, CopyProcess, WriteScript, WriteConfiguration, StartSandbox,
       SandboxEnded, FetchOutput
  <2>2. CASE HostFails \/ HostKilled \/ Again
    BY <2>2 DEF HostFails, HostKilled, Again
  <2>3. CASE Sandbox
    BY <2>3 DEF Sandbox, Boot, GuestHalts, SandboxCloses
  <2>4. CASE Guest \/ Rival \/ UNCHANGED vars
    BY <2>4 DEF Guest, Rival, RivalAsks, RivalCreates, RivalSaves, RivalBreaks, RivalOther,
       vars, hostVars, program, vm
  <2> QED
    BY <2>1, <2>2, <2>3, <2>4 DEF Next
<1>2. <<HostReturns>>_vars /\ Closed => (host # "wait")'
  BY DEF HostReturns, HostFails, HostProceeds, At, MakeWorkFolder, CopySelf, CopyCert, FindProcmon,
     CreateDownload, SaveDownload, Verify, CopyProcmon, CopyProcess, WriteScript, WriteConfiguration,
     StartSandbox, SandboxEnded, FetchOutput
<1>3. Closed /\ GuardsEnable => ENABLED <<HostReturns>>_vars
  BY DEF GuardsEnable
<1> QED
  BY <1>1, <1>2, <1>3, PTL DEF Spec, Fairness

\* A host's wait for its sandbox ends in every run of the program, unless the
\* guest is stuck for ever in one of the ways that GuestStuck names (wsb.rs:215).
THEOREM HostReturnsUnlessStuck == Spec /\ []GuardsEnable => HostEnds
<1>1. /\ Passes("spawn", "new") /\ Passes("new", "start") /\ Passes("start", "starting")
      /\ Passes("starting", "resume") /\ Passes("resume", "wait") /\ Passes("wait", "stop")
      /\ Passes("stop", "stopping") /\ Passes("stopping", "pack") /\ Passes("pack", "packing")
      /\ Passes("packing", "shutdown") /\ Passes("shutdown", "returned")
  BY CallPasses DEF Calls, NextCall
<1>2. Up("returned") => Over
  BY DEF Up, Over, Alive
<1>3. IInv /\ host = "wait" =>
          \/ host = "wait" /\ sandbox = "booting"
          \/ host = "wait" /\ sandbox = "closed"
          \/ Over
          \/ Up("spawn") \/ Up("new") \/ Up("start") \/ Up("starting") \/ Up("resume")
          \/ Up("wait") \/ Up("stop") \/ Up("stopping") \/ Up("pack") \/ Up("packing")
          \/ Up("shutdown")
  BY DEF IInv, TypeOK, SessionTypeOK, SessionProcess, Hosted, Up, Over, Alive
<1>4. Left => host # "wait" \/ (host = "wait" /\ sandbox = "closed")
  BY DEF Left
<1> QED
  BY <1>1, <1>2, <1>3, <1>4, OverLeads, BootLeads, ClosedLeads, Inductive, PTL
  DEF HostEnds, Passes, Spec, Fairness, GuestReturns

-----------------------------------------------------------------------------
(* The launched process is resumed.                                        *)

\* How the suspension ends, or is allowed not to; and before that, the call c.
Freed == process # "suspended" \/ verdict = "error" \/ pc \in {"killed", "off"} \/ resumeLost

Held(c) == ~Freed /\ pc = c

StartHangs == method = "Procmon" /\ pc = "starting" /\ phase = "starting"

BeforeResume == {"new", "start", "starting", "resume"}

\* A step of the session: it comes nearer to the resumption, or frees.
LEMMA HeldGuestSteps ==
    ASSUME NEW c \in BeforeResume, IInv, Guest, Held(c)
    PROVE  /\ Held(c)' \/ (c # "resume" /\ Held(NextCall[c])') \/ Freed'
           /\ Ready /\ Held(c)' => Ready'
           /\ GuestReturns => ~Held(c)'
<1> USE DEF Held, Freed, Guest
<1>1. command = "GuestLaunch"
  BY DEF IInv, TypeOK, SessionTypeOK, SessionProcess
<1>2. NextCall[c] # c
  BY DEF BeforeResume, Calls, NextCall
<1>3. CASE Returns
  BY <1>1, <1>2, <1>3 DEF BeforeResume, Calls, NextCall, Returns, Proceeds, Fails, Goto, Return, Waiting,
     Spawn, NewMonitor, Start, Started, Resume, Wait, Stop, Stopped, OpenOutput, Pack, Shutdown,
     launched
<1>4. CASE ~Returns /\ (Fails \/ Killed)
  BY <1>4 DEF Fails, Killed, Return, GuestReturns
<1>5. CASE ~Returns /\ (MonitorStarts \/ MonitorStops \/ ProcessExits)
  <2>1. pc' = c /\ (process' = process \/ process' = "exited") /\ UNCHANGED <<verdict, resumeLost>>
    BY <1>5 DEF MonitorStarts, MonitorStops, ProcessExits, launched
  <2>2. Ready => Ready'
    BY <1>5, <2>1 DEF Ready, MonitorStarts, MonitorStops, ProcessExits,
       Monitor!StartReturns, Monitor!StopReturns, monitor
  <2> QED
    BY <1>5, <2>1, <2>2 DEF GuestReturns, BeforeResume
<1>6. ~Enter
  BY DEF Enter, BeforeResume
<1> QED
  BY <1>3, <1>4, <1>5, <1>6 DEF SessionNext, Returns

\* Nobody else moves a session whose process is suspended, but for ending both.
LEMMA HeldOthersStep ==
    ASSUME IInv, [Next]_vars, ~Guest
    PROVE  Freed' \/ Freed \/ UNCHANGED sessionVars
<1>1. CASE HostProceeds
  BY <1>1 DEF HostProceeds, MakeWorkFolder, CopySelf, CopyCert, FindProcmon, CreateDownload,
     SaveDownload, Verify, CopyProcmon, CopyProcess, WriteScript, WriteConfiguration, StartSandbox,
     SandboxEnded, FetchOutput
<1>2. CASE HostFails \/ HostKilled \/ Again
  BY <1>2 DEF HostFails, HostKilled, Again, Freed
<1>3. CASE Boot
  BY <1>3 DEF IInv, Hosted, Boot, Freed
<1>4. CASE GuestHalts \/ SandboxCloses
  BY <1>4 DEF GuestHalts, SandboxCloses, Close, Freed
<1>5. CASE Rival
  BY <1>5 DEF Rival, RivalAsks, RivalCreates, RivalSaves, RivalBreaks, RivalOther
<1>6. CASE UNCHANGED vars
  BY <1>6 DEF vars
<1> QED
  BY <1>1, <1>2, <1>3, <1>4, <1>5, <1>6 DEF Next, Sandbox

\* How the session comes from the call c, returning fairly, to the call d.
Resumes(c, d) ==
    /\ IInv /\ [Next]_vars /\ Held(c) => Held(c)' \/ Held(d)' \/ Freed'
    /\ IInv /\ [Next]_vars /\ Held(c) /\ Ready /\ Held(c)' => Ready'
    /\ IInv /\ <<GuestReturns>>_vars /\ [Next]_vars /\ Held(c) => ~Held(c)'
    /\ IInv /\ Held(c) => Ready \/ StartHangs
    /\ Held(c) /\ Ready /\ GuardsEnable => ENABLED <<GuestReturns>>_vars

LEMMA HeldResumes ==
    ASSUME NEW c \in BeforeResume, NEW d, c = "resume" \/ d = NextCall[c]
    PROVE  Resumes(c, d)
<1>1. ASSUME IInv, [Next]_vars, Held(c)
      PROVE  /\ Held(c)' \/ (c # "resume" /\ Held(NextCall[c])') \/ Freed'
             /\ Ready /\ Held(c)' => Ready'
             /\ GuestReturns => ~Held(c)'
  <2>1. CASE Guest
    BY <1>1, <2>1, HeldGuestSteps
  <2>2. CASE ~Guest
    <3>1. Freed' \/ UNCHANGED sessionVars
      BY <1>1, <2>2, HeldOthersStep DEF Held
    <3>2. ~GuestReturns
      BY <2>2 DEF GuestReturns, Guest, Returns, SessionNext
    <3> QED
      BY <1>1, <3>1, <3>2 DEF Held, Freed, Ready, sessionVars, monitor, launched
  <2> QED
    BY <2>1, <2>2
<1>2. IInv /\ Held(c) => Ready \/ StartHangs
  BY DEF IInv, SessionPhases, Held, BeforeResume, Ready, Waiting, StartHangs
<1>3. Held(c) => Alive
  BY DEF Held, BeforeResume, Alive
<1> QED
  BY <1>1, <1>2, <1>3 DEF Resumes, GuardsEnable

\* No session leaves its process suspended, but after an error, when it is
\* killed, when start() hangs or ResumeThread failed (main.rs:80-96).
THEOREM ProcessResumed == Spec /\ []GuardsEnable => ResumedUnlessFailed
<1>1. /\ Resumes("new", "start") /\ Resumes("start", "starting")
      /\ Resumes("starting", "resume") /\ Resumes("resume", "resume")
  BY HeldResumes DEF BeforeResume, NextCall, Calls
<1>2. IInv => Freed \/ Held("new") \/ Held("start") \/ Held("starting") \/ Held("resume")
  BY DEF IInv, TypeOK, SessionTypeOK, SessionProcess, SessionVerdict, OkMeansArchive, Freed, Held, Alive
<1>3. Freed => process # "suspended" \/ verdict = "error" \/ pc \in {"killed", "off"} \/ resumeLost
  BY DEF Freed
<1>4. StartHangs => method = "Procmon" /\ pc = "starting" /\ phase = "starting"
  BY DEF StartHangs
<1> QED
  BY <1>1, <1>2, <1>3, <1>4, Inductive, PTL
  DEF ResumedUnlessFailed, Resumes, Spec, Fairness, GuestReturns
====
