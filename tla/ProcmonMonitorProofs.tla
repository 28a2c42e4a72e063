------------------------ MODULE ProcmonMonitorProofs ------------------------
(***************************************************************************)
(* The properties of ProcmonMonitor, for every order in which the client,  *)
(* the three futures and the four processes of Process Monitor take their  *)
(* steps, and every place at which run() fails: what holds throughout,     *)
(* that it is a ChangeMonitor, and that start() and stop() return.         *)
(***************************************************************************)
EXTENDS ProcmonMonitor, TLAPS

\* A future has spawned its child once it was polled, and is done only when
\* the child has ended; a token is cancelled by the future that owns it.
FuturesInv ==
    /\ fRun = "init" <=> capture = "none"
    /\ fRun = "init" => fWait = "init"
    /\ fRun = "done" => capture \in {"success", "failure"}
    /\ fWait = "init" <=> idle = "none"
    /\ fWait = "done" => startedSignal /\ idle = "success"
    /\ terminate # "none" => fCancel # "init"
    /\ task \in {"unspawned", "resolve", "config"} => fRun = "init" /\ fWait = "init"
    /\ client = "tracking" => startedSignal

\* A capture ends by itself, or because stop() was called; and it was up when
\* /WaitForIdle succeeded, so that until then it is.
CaptureInv ==
    /\ capture = "failure" => ~whole
    /\ capture \in {"success", "terminating"} => stopSignal
    /\ idle = "success" /\ whole /\ ~stopSignal => capture = "running"
    /\ idle # "none" /\ ~stopSignal => task = "join" \/ result \in {"joinFailed", "waitFailed"}

\* The way from the join to the result: all futures are done.
ResultInv ==
    /\ task = "export" \/ result \in {"ok", "noXml", "parseFailed", "exportFailed", "exportLost"}
         => fRun = "done" /\ stopSignal
    /\ export = "running" => task = "export" \/ result = "exportLost"
    /\ result \in {"resolveFailed", "configFailed"} => fRun = "init" /\ fWait = "init"
    /\ startedSignal /\ ~stopSignal => task = "join" \/ result = "waitFailed"

\* The files: what a guard of run() deletes, and the log of a live capture.
DiskInv ==
    /\ task \in {"unspawned", "resolve", "config"} => disk = {}
    /\ task = "join" => "pmc" \in disk /\ "xml" \notin disk
    /\ (task = "join" \/ result = "waitFailed") /\ capture = "running" => "pml" \in disk

IInv ==
    TypeOK /\ FuturesInv /\ CaptureInv /\ ResultInv /\ DiskInv /\ NoLitter

\* The conjuncts of the invariant speak of these alone.
LEMMA StutterPreserves == IInv /\ UNCHANGED vars => IInv'
  BY DEF IInv, TypeOK, FuturesInv, CaptureInv, ResultInv, DiskInv, NoLitter,
         vars, signals, futures, children

LEMMA InitEstablishes == Init => IInv
  BY DEF Init, IInv, TypeOK, FuturesInv, CaptureInv, ResultInv, DiskInv, NoLitter,
         Child, TempFiles

-----------------------------------------------------------------------------
\* The client's steps.
LEMMA ClientPreserves ==
    ASSUME IInv, Client
    PROVE  IInv'
<1>1. CASE Start
  <2>1. TypeOK'
    BY <1>1 DEF IInv, TypeOK, FuturesInv, Start, signals, futures, children
  <2>2. FuturesInv' /\ CaptureInv'
    BY <1>1 DEF IInv, TypeOK, FuturesInv, CaptureInv, ResultInv, Start, signals, futures,
                children
  <2>3. ResultInv'
    BY <1>1 DEF IInv, TypeOK, FuturesInv, CaptureInv, ResultInv, Start, signals, futures,
                children
  <2>4. DiskInv' /\ NoLitter'
    BY <1>1 DEF IInv, TypeOK, FuturesInv, ResultInv, DiskInv, NoLitter, Start, signals,
                futures, children
  <2> QED
    BY <2>1, <2>2, <2>3, <2>4 DEF IInv
<1>2. CASE StartReturns
  <2>1. TypeOK'
    BY <1>2 DEF IInv, TypeOK, FuturesInv, StartReturns, signals, futures, children
  <2>2. FuturesInv' /\ CaptureInv'
    BY <1>2 DEF IInv, TypeOK, FuturesInv, CaptureInv, ResultInv, StartReturns, signals,
                futures, children
  <2>3. ResultInv'
    BY <1>2 DEF IInv, TypeOK, FuturesInv, CaptureInv, ResultInv, StartReturns, signals,
                futures, children
  <2>4. DiskInv' /\ NoLitter'
    BY <1>2 DEF IInv, TypeOK, FuturesInv, ResultInv, DiskInv, NoLitter, StartReturns, signals,
                futures, children
  <2> QED
    BY <2>1, <2>2, <2>3, <2>4 DEF IInv
<1>3. CASE Stop
  <2>1. TypeOK'
    BY <1>3 DEF IInv, TypeOK, FuturesInv, Stop, futures, children, TempFiles
  <2>2. FuturesInv' /\ CaptureInv'
    BY <1>3 DEF IInv, TypeOK, FuturesInv, CaptureInv, ResultInv, Stop, futures, children
  <2>3. ResultInv'
    BY <1>3 DEF IInv, TypeOK, FuturesInv, CaptureInv, ResultInv, Stop, futures, children
  <2>4. DiskInv' /\ NoLitter'
    BY <1>3 DEF IInv, TypeOK, FuturesInv, ResultInv, DiskInv, NoLitter, Stop, futures,
                children, TempFiles
  <2> QED
    BY <2>1, <2>2, <2>3, <2>4 DEF IInv
<1>4. CASE StopReturns
  <2>1. TypeOK'
    BY <1>4 DEF IInv, TypeOK, FuturesInv, StopReturns, signals, futures, children
  <2>2. FuturesInv' /\ CaptureInv'
    BY <1>4 DEF IInv, TypeOK, FuturesInv, CaptureInv, ResultInv, StopReturns, signals, futures,
                children
  <2>3. ResultInv'
    BY <1>4 DEF IInv, TypeOK, FuturesInv, CaptureInv, ResultInv, StopReturns, signals, futures,
                children
  <2>4. DiskInv' /\ NoLitter'
    BY <1>4 DEF IInv, TypeOK, FuturesInv, ResultInv, DiskInv, NoLitter, StopReturns, signals,
                futures, children
  <2> QED
    BY <2>1, <2>2, <2>3, <2>4 DEF IInv
<1> QED
  BY <1>1, <1>2, <1>3, <1>4 DEF Client

-----------------------------------------------------------------------------
\* The steps of run() and its futures.
LEMMA RunPreserves ==
    ASSUME IInv, Run
    PROVE  IInv'
<1>1. CASE Resolve
  <2>1. TypeOK'
    BY <1>1 DEF IInv, TypeOK, FuturesInv, Resolve, End, MayBeHeld, signals, futures, children, TempFiles
  <2>2. FuturesInv' /\ CaptureInv'
    BY <1>1 DEF IInv, TypeOK, FuturesInv, CaptureInv, ResultInv, Resolve, End, MayBeHeld, signals,
                futures, children
  <2>3. ResultInv'
    BY <1>1 DEF IInv, TypeOK, FuturesInv, CaptureInv, ResultInv, Resolve, End, MayBeHeld, signals,
                futures, children
  <2>4. DiskInv' /\ NoLitter'
    BY <1>1 DEF IInv, TypeOK, FuturesInv, ResultInv, DiskInv, NoLitter, Resolve, End, MayBeHeld, signals,
                futures, children, TempFiles
  <2> QED
    BY <2>1, <2>2, <2>3, <2>4 DEF IInv
<1>2. CASE WriteConfig
  <2>1. TypeOK'
    BY <1>2 DEF IInv, TypeOK, FuturesInv, WriteConfig, End, MayBeHeld, signals, futures, children,
                TempFiles
  <2>2. FuturesInv' /\ CaptureInv'
    BY <1>2 DEF IInv, TypeOK, FuturesInv, CaptureInv, ResultInv, WriteConfig, End, MayBeHeld, signals,
                futures, children
  <2>3. ResultInv'
    BY <1>2 DEF IInv, TypeOK, FuturesInv, CaptureInv, ResultInv, WriteConfig, End, MayBeHeld, signals,
                futures, children
  <2>4. DiskInv' /\ NoLitter'
    BY <1>2 DEF IInv, TypeOK, FuturesInv, ResultInv, DiskInv, NoLitter, WriteConfig, End, MayBeHeld,
                signals, futures, children, TempFiles
  <2> QED
    BY <2>1, <2>2, <2>3, <2>4 DEF IInv
<1>3. CASE SpawnCapture
  <2>1. TypeOK'
    BY <1>3 DEF IInv, TypeOK, FuturesInv, SpawnCapture, signals, Child
  <2>2. FuturesInv' /\ CaptureInv'
    BY <1>3 DEF IInv, TypeOK, FuturesInv, CaptureInv, ResultInv, SpawnCapture, signals
  <2>3. ResultInv'
    BY <1>3 DEF IInv, TypeOK, FuturesInv, CaptureInv, ResultInv, SpawnCapture, signals
  <2>4. DiskInv' /\ NoLitter'
    BY <1>3 DEF IInv, TypeOK, FuturesInv, ResultInv, DiskInv, NoLitter, SpawnCapture, signals
  <2> QED
    BY <2>1, <2>2, <2>3, <2>4 DEF IInv
<1>4. CASE SpawnIdle
  <2>1. TypeOK'
    BY <1>4 DEF IInv, TypeOK, FuturesInv, SpawnIdle, signals, Child
  <2>2. FuturesInv' /\ CaptureInv'
    BY <1>4 DEF IInv, TypeOK, FuturesInv, CaptureInv, ResultInv, SpawnIdle, signals
  <2>3. ResultInv'
    BY <1>4 DEF IInv, TypeOK, FuturesInv, CaptureInv, ResultInv, SpawnIdle, signals
  <2>4. DiskInv' /\ NoLitter'
    BY <1>4 DEF IInv, TypeOK, FuturesInv, ResultInv, DiskInv, NoLitter, SpawnIdle, signals
  <2> QED
    BY <2>1, <2>2, <2>3, <2>4 DEF IInv
<1>5. CASE CaptureDone
  <2>1. TypeOK'
    BY <1>5 DEF IInv, TypeOK, FuturesInv, CaptureDone, children, TempFiles
  <2>2. FuturesInv' /\ CaptureInv'
    BY <1>5 DEF IInv, TypeOK, FuturesInv, CaptureInv, ResultInv, CaptureDone, children
  <2>3. ResultInv'
    BY <1>5 DEF IInv, TypeOK, FuturesInv, CaptureInv, ResultInv, CaptureDone, children
  <2>4. DiskInv' /\ NoLitter'
    BY <1>5 DEF IInv, TypeOK, FuturesInv, ResultInv, DiskInv, NoLitter, CaptureDone, children,
                TempFiles
  <2> QED
    BY <2>1, <2>2, <2>3, <2>4 DEF IInv
<1>6. CASE IdleDone
  <2>1. TypeOK'
    BY <1>6 DEF IInv, TypeOK, FuturesInv, IdleDone, children, TempFiles
  <2>2. FuturesInv' /\ CaptureInv'
    BY <1>6 DEF IInv, TypeOK, FuturesInv, CaptureInv, ResultInv, IdleDone, children
  <2>3. ResultInv'
    BY <1>6 DEF IInv, TypeOK, FuturesInv, CaptureInv, ResultInv, IdleDone, children
  <2>4. DiskInv' /\ NoLitter'
    BY <1>6 DEF IInv, TypeOK, FuturesInv, ResultInv, DiskInv, NoLitter, IdleDone, children,
                TempFiles
  <2> QED
    BY <2>1, <2>2, <2>3, <2>4 DEF IInv
<1>7. CASE StopSeen
  <2>1. TypeOK'
    BY <1>7 DEF IInv, TypeOK, FuturesInv, StopSeen, signals, Child, TempFiles
  <2>2. FuturesInv' /\ CaptureInv'
    BY <1>7 DEF IInv, TypeOK, FuturesInv, CaptureInv, ResultInv, StopSeen, signals
  <2>3. ResultInv'
    BY <1>7 DEF IInv, TypeOK, FuturesInv, CaptureInv, ResultInv, StopSeen, signals
  <2>4. DiskInv' /\ NoLitter'
    BY <1>7 DEF IInv, TypeOK, FuturesInv, ResultInv, DiskInv, NoLitter, StopSeen, signals,
                TempFiles
  <2> QED
    BY <2>1, <2>2, <2>3, <2>4 DEF IInv
<1>8. CASE TerminateDone
  <2>1. TypeOK'
    BY <1>8 DEF IInv, TypeOK, FuturesInv, TerminateDone, signals, children
  <2>2. FuturesInv' /\ CaptureInv'
    BY <1>8 DEF IInv, TypeOK, FuturesInv, CaptureInv, ResultInv, TerminateDone, signals,
                children
  <2>3. ResultInv'
    BY <1>8 DEF IInv, TypeOK, FuturesInv, CaptureInv, ResultInv, TerminateDone, signals,
                children
  <2>4. DiskInv' /\ NoLitter'
    BY <1>8 DEF IInv, TypeOK, FuturesInv, ResultInv, DiskInv, NoLitter, TerminateDone, signals,
                children
  <2> QED
    BY <2>1, <2>2, <2>3, <2>4 DEF IInv
<1>9. CASE JoinFails
  <2>1. TypeOK'
    BY <1>9 DEF IInv, TypeOK, FuturesInv, JoinFails, End, MayBeHeld, signals, futures, children, TempFiles
  <2>2. FuturesInv' /\ CaptureInv'
    BY <1>9 DEF IInv, TypeOK, FuturesInv, CaptureInv, ResultInv, JoinFails, End, MayBeHeld, signals,
                futures, children
  <2>3. ResultInv'
    BY <1>9 DEF IInv, TypeOK, FuturesInv, CaptureInv, ResultInv, JoinFails, End, MayBeHeld, signals,
                futures, children
  <2>4. DiskInv' /\ NoLitter'
    BY <1>9 DEF IInv, TypeOK, FuturesInv, ResultInv, DiskInv, NoLitter, JoinFails, End, MayBeHeld,
                signals, futures, children, TempFiles
  <2> QED
    BY <2>1, <2>2, <2>3, <2>4 DEF IInv
<1>10. CASE Joined
  <2>1. TypeOK'
    BY <1>10 DEF IInv, TypeOK, FuturesInv, Joined, End, MayBeHeld, signals, futures, Child, TempFiles
  <2>2. FuturesInv' /\ CaptureInv'
    BY <1>10 DEF IInv, TypeOK, FuturesInv, CaptureInv, ResultInv, Joined, End, MayBeHeld, signals, futures
  <2>3. ResultInv'
    BY <1>10 DEF IInv, TypeOK, FuturesInv, CaptureInv, ResultInv, Joined, End, MayBeHeld, signals, futures
  <2>4. DiskInv' /\ NoLitter'
    BY <1>10 DEF IInv, TypeOK, FuturesInv, ResultInv, DiskInv, NoLitter, Joined, End, MayBeHeld, signals,
                 futures, TempFiles
  <2> QED
    BY <2>1, <2>2, <2>3, <2>4 DEF IInv
<1>11. CASE ExportDone
  <2>1. TypeOK'
    BY <1>11 DEF IInv, TypeOK, FuturesInv, ExportDone, End, MayBeHeld, signals, futures, children,
                 TempFiles
  <2>2. FuturesInv' /\ CaptureInv'
    BY <1>11 DEF IInv, TypeOK, FuturesInv, CaptureInv, ResultInv, ExportDone, End, MayBeHeld, signals,
                 futures, children
  <2>3. ResultInv'
    BY <1>11 DEF IInv, TypeOK, FuturesInv, CaptureInv, ResultInv, ExportDone, End, MayBeHeld, signals,
                 futures, children
  <2>4. DiskInv' /\ NoLitter'
    BY <1>11 DEF IInv, TypeOK, FuturesInv, ResultInv, DiskInv, NoLitter, ExportDone, End, MayBeHeld,
                 signals, futures, children, TempFiles
  <2> QED
    BY <2>1, <2>2, <2>3, <2>4 DEF IInv
<1> QED
  BY <1>1, <1>2, <1>3, <1>4, <1>5, <1>6, <1>7, <1>8, <1>9, <1>10, <1>11 DEF Run

-----------------------------------------------------------------------------
\* A wait for a child that fails.
LEMMA WaitsFailPreserves ==
    ASSUME IInv, WaitsFail
    PROVE  IInv'
<1>1. CASE WaitFails
  <2>1. TypeOK'
    BY <1>1 DEF IInv, TypeOK, FuturesInv, WaitFails, End, MayBeHeld, signals, futures, children,
                TempFiles
  <2>2. FuturesInv' /\ CaptureInv'
    BY <1>1 DEF IInv, TypeOK, FuturesInv, CaptureInv, ResultInv, WaitFails, End, signals,
                futures, children
  <2>3. ResultInv'
    BY <1>1 DEF IInv, TypeOK, FuturesInv, CaptureInv, ResultInv, WaitFails, End, signals,
                futures, children
  <2>4. DiskInv' /\ NoLitter'
    BY <1>1 DEF IInv, TypeOK, FuturesInv, ResultInv, DiskInv, NoLitter, WaitFails, End, MayBeHeld,
                signals, futures, children, TempFiles
  <2> QED
    BY <2>1, <2>2, <2>3, <2>4 DEF IInv
<1>2. CASE ExportWaitFails
  <2>1. TypeOK'
    BY <1>2 DEF IInv, TypeOK, FuturesInv, ExportWaitFails, End, MayBeHeld, signals, futures,
                children, TempFiles
  <2>2. FuturesInv' /\ CaptureInv'
    BY <1>2 DEF IInv, TypeOK, FuturesInv, CaptureInv, ResultInv, ExportWaitFails, End, signals,
                futures, children
  <2>3. ResultInv'
    BY <1>2 DEF IInv, TypeOK, FuturesInv, CaptureInv, ResultInv, ExportWaitFails, End, signals,
                futures, children
  <2>4. DiskInv' /\ NoLitter'
    BY <1>2 DEF IInv, TypeOK, FuturesInv, ResultInv, DiskInv, NoLitter, ExportWaitFails, End,
                MayBeHeld, signals, futures, children, TempFiles
  <2> QED
    BY <2>1, <2>2, <2>3, <2>4 DEF IInv
<1> QED
  BY <1>1, <1>2 DEF WaitsFail

-----------------------------------------------------------------------------
\* The steps of Process Monitor.
LEMMA ProcmonPreserves ==
    ASSUME IInv, Procmon
    PROVE  IInv'
<1>1. CASE CaptureUp
  <2>1. TypeOK'
    BY <1>1 DEF IInv, TypeOK, FuturesInv, CaptureUp, NoneElse, signals, futures, Child,
                TempFiles
  <2>2. FuturesInv' /\ CaptureInv'
    BY <1>1 DEF IInv, TypeOK, FuturesInv, CaptureInv, ResultInv, CaptureUp, NoneElse, signals,
                futures
  <2>3. ResultInv'
    BY <1>1 DEF IInv, TypeOK, FuturesInv, CaptureInv, ResultInv, CaptureUp, NoneElse, signals,
                futures
  <2>4. DiskInv' /\ NoLitter'
    BY <1>1 DEF IInv, TypeOK, FuturesInv, ResultInv, DiskInv, NoLitter, CaptureUp, NoneElse,
                signals, futures, TempFiles
  <2> QED
    BY <2>1, <2>2, <2>3, <2>4 DEF IInv
<1>2. CASE CaptureDies
  <2>1. TypeOK'
    BY <1>2 DEF IInv, TypeOK, FuturesInv, CaptureDies, NoneElse, signals, futures, Child
  <2>2. FuturesInv' /\ CaptureInv'
    BY <1>2 DEF IInv, TypeOK, FuturesInv, CaptureInv, ResultInv, CaptureDies, NoneElse,
                signals, futures
  <2>3. ResultInv'
    BY <1>2 DEF IInv, TypeOK, FuturesInv, CaptureInv, ResultInv, CaptureDies, NoneElse,
                signals, futures
  <2>4. DiskInv' /\ NoLitter'
    BY <1>2 DEF IInv, TypeOK, FuturesInv, ResultInv, DiskInv, NoLitter, CaptureDies, NoneElse,
                signals, futures
  <2> QED
    BY <2>1, <2>2, <2>3, <2>4 DEF IInv
<1>3. CASE CaptureTerminates
  <2>1. TypeOK'
    BY <1>3 DEF IInv, TypeOK, FuturesInv, CaptureTerminates, NoneElse, signals, futures, Child
  <2>2. FuturesInv' /\ CaptureInv'
    BY <1>3 DEF IInv, TypeOK, FuturesInv, CaptureInv, ResultInv, CaptureTerminates, NoneElse,
                signals, futures
  <2>3. ResultInv'
    BY <1>3 DEF IInv, TypeOK, FuturesInv, CaptureInv, ResultInv, CaptureTerminates, NoneElse,
                signals, futures
  <2>4. DiskInv' /\ NoLitter'
    BY <1>3 DEF IInv, TypeOK, FuturesInv, ResultInv, DiskInv, NoLitter, CaptureTerminates,
                NoneElse, signals, futures
  <2> QED
    BY <2>1, <2>2, <2>3, <2>4 DEF IInv
<1>4. CASE IdleExits
  <2>1. TypeOK'
    BY <1>4 DEF IInv, TypeOK, FuturesInv, IdleExits, NoneElse, signals, futures, Child
  <2>2. FuturesInv' /\ CaptureInv'
    BY <1>4 DEF IInv, TypeOK, FuturesInv, CaptureInv, ResultInv, IdleExits, NoneElse, signals,
                futures
  <2>3. ResultInv'
    BY <1>4 DEF IInv, TypeOK, FuturesInv, CaptureInv, ResultInv, IdleExits, NoneElse, signals,
                futures
  <2>4. DiskInv' /\ NoLitter'
    BY <1>4 DEF IInv, TypeOK, FuturesInv, ResultInv, DiskInv, NoLitter, IdleExits, NoneElse,
                signals, futures
  <2> QED
    BY <2>1, <2>2, <2>3, <2>4 DEF IInv
<1>5. CASE TerminateExits
  <2>1. TypeOK'
    BY <1>5 DEF IInv, TypeOK, FuturesInv, TerminateExits, NoneElse, signals, futures, Child
  <2>2. FuturesInv' /\ CaptureInv'
    BY <1>5 DEF IInv, TypeOK, FuturesInv, CaptureInv, ResultInv, TerminateExits, NoneElse,
                signals, futures
  <2>3. ResultInv'
    BY <1>5 DEF IInv, TypeOK, FuturesInv, CaptureInv, ResultInv, TerminateExits, NoneElse,
                signals, futures
  <2>4. DiskInv' /\ NoLitter'
    BY <1>5 DEF IInv, TypeOK, FuturesInv, ResultInv, DiskInv, NoLitter, TerminateExits,
                NoneElse, signals, futures
  <2> QED
    BY <2>1, <2>2, <2>3, <2>4 DEF IInv
<1>6. CASE ExportExits
  <2>1. TypeOK'
    BY <1>6 DEF IInv, TypeOK, FuturesInv, ExportExits, NoneElse, signals, futures, Child,
                TempFiles
  <2>2. FuturesInv' /\ CaptureInv'
    BY <1>6 DEF IInv, TypeOK, FuturesInv, CaptureInv, ResultInv, ExportExits, NoneElse,
                signals, futures
  <2>3. ResultInv'
    BY <1>6 DEF IInv, TypeOK, FuturesInv, CaptureInv, ResultInv, ExportExits, NoneElse,
                signals, futures
  <2>4. DiskInv' /\ NoLitter'
    BY <1>6 DEF IInv, TypeOK, FuturesInv, ResultInv, DiskInv, NoLitter, ExportExits, NoneElse,
                signals, futures, TempFiles
  <2> QED
    BY <2>1, <2>2, <2>3, <2>4 DEF IInv
<1> QED
  BY <1>1, <1>2, <1>3, <1>4, <1>5, <1>6 DEF Procmon

-----------------------------------------------------------------------------
\* The inductive invariant holds throughout.
THEOREM InductiveInvariant == Spec => []IInv
<1>1. IInv /\ [Next]_vars => IInv'
  BY ClientPreserves, RunPreserves, WaitsFailPreserves, ProcmonPreserves, StutterPreserves DEF Next
<1> QED
  BY <1>1, InitEstablishes, PTL DEF Spec

\* The types, and which states of the client, the futures, the tokens and the
\* guards of run() (procmon.rs:82-246) go together.
THEOREM TypeCorrect == Spec => []TypeOK
<1>1. IInv => TypeOK
  BY DEF IInv
<1> QED
  BY <1>1, InductiveInvariant, PTL

\* start() (procmon.rs:615-629) returns only with a capture at work, and it
\* works until stop() is called unless Procmon ends by itself.
THEOREM StartedMeansCapturingHolds == Spec => []StartedMeansCapturing
<1>1. IInv => StartedMeansCapturing
  BY DEF IInv, TypeOK, FuturesInv, CaptureInv, ResultInv, DiskInv, StartedMeansCapturing
<1> QED
  BY <1>1, InductiveInvariant, PTL

\* The log is exported (procmon.rs:151-160) only once its capture has ended.
THEOREM ExportsEndedCaptureHolds == Spec => []ExportsEndedCapture
<1>1. IInv => ExportsEndedCapture
  BY DEF IInv, FuturesInv, ResultInv, ExportsEndedCapture, CaptureAlive
<1> QED
  BY <1>1, InductiveInvariant, PTL

\* The guards of run() leave no temporary file behind, a live capture's aside.
THEOREM NoLitterHolds == Spec => []NoLitter
<1>1. IInv => NoLitter
  BY DEF IInv
<1> QED
  BY <1>1, InductiveInvariant, PTL

-----------------------------------------------------------------------------
(* The monitor implements the trait's specification.                       *)

\* stop() succeeds only with a result, and then nothing of run() is left.
StoppedInv == client = "stopped" => task = "ended" /\ result = "ok"

LEMMA StoppedPreserved ==
    ASSUME IInv, StoppedInv, [Next]_vars
    PROVE  StoppedInv'
<1>1. CASE Client
  BY <1>1 DEF Client, Start, StartReturns, Stop, StopReturns, StoppedInv
<1>2. CASE Run
  BY <1>2 DEF Run, Resolve, WriteConfig, SpawnCapture, SpawnIdle, CaptureDone, IdleDone,
              StopSeen, TerminateDone, JoinFails, Joined, ExportDone, StoppedInv
<1>3. CASE Procmon
  BY <1>3 DEF Procmon, CaptureUp, CaptureDies, CaptureTerminates, IdleExits, TerminateExits,
              ExportExits, NoneElse, StoppedInv
<1>4. CASE WaitsFail
  BY <1>4 DEF WaitsFail, WaitFails, ExportWaitFails, StoppedInv
<1>5. CASE UNCHANGED vars
  BY <1>5 DEF vars, StoppedInv
<1> QED
  BY <1>1, <1>2, <1>3, <1>4, <1>5 DEF Next

\* A client's step does not touch the capture.
LEMMA ClientRefines ==
    ASSUME IInv, Client
    PROVE  [Abstract!Next]_(Abstract!vars)
<1>1. capture' = capture
  BY DEF Client, Start, StartReturns, Stop, StopReturns, children
<1>2. CASE Start
  BY <1>1, <1>2 DEF Start, MonitorPhase, Noted, CaptureAlive, Abstract!Next, Abstract!Start
<1>3. CASE StartReturns
  BY <1>1, <1>3 DEF StartReturns, MonitorPhase, Noted, CaptureAlive, Abstract!Next,
                    Abstract!StartReturns
<1>4. CASE Stop
  BY <1>1, <1>4 DEF Stop, MonitorPhase, Noted, CaptureAlive, Abstract!Next, Abstract!Stop
<1>5. CASE StopReturns
  BY <1>1, <1>5 DEF StopReturns, MonitorPhase, Noted, CaptureAlive, Abstract!Next,
                    Abstract!StopReturns, Abstract!Fail
<1> QED
  BY <1>2, <1>3, <1>4, <1>5 DEF Client

\* An ended capture stays ended, and none runs before start() or after a
\* stop() that succeeded.
LEMMA CaptureMoves ==
    ASSUME IInv, StoppedInv, Run \/ WaitsFail \/ Procmon
    PROVE  /\ client' = client
           /\ capture' # capture => client \in {"starting", "tracking", "stopping", "failed"}
           /\ capture \in {"success", "failure"} => capture' = capture
<1>1. CASE SpawnCapture
  BY <1>1 DEF SpawnCapture, IInv, TypeOK, FuturesInv, StoppedInv
<1>2. CASE Run /\ ~SpawnCapture
  BY <1>2 DEF Run, Resolve, WriteConfig, SpawnIdle, CaptureDone, IdleDone, StopSeen,
              TerminateDone, JoinFails, Joined, ExportDone, children
<1>3. CASE Procmon
  <2>1. client' = client /\ (capture' # capture => CaptureAlive)
    BY <1>3 DEF Procmon, CaptureUp, CaptureDies, CaptureTerminates, IdleExits, TerminateExits,
                ExportExits, NoneElse, CaptureAlive
  <2>2. CaptureAlive => client \in {"starting", "tracking", "stopping", "failed"}
    BY DEF CaptureAlive, IInv, TypeOK, FuturesInv, ResultInv, StoppedInv
  <2> QED
    BY <2>1, <2>2 DEF CaptureAlive
<1>4. CASE WaitsFail
  BY <1>4 DEF WaitsFail, WaitFails, ExportWaitFails, children
<1> QED
  BY <1>1, <1>2, <1>3, <1>4

LEMMA RunRefines ==
    ASSUME IInv, IInv', StoppedInv, Run \/ WaitsFail \/ Procmon
    PROVE  [Abstract!Next]_(Abstract!vars)
<1>1. /\ client' = client
      /\ capture' # capture => client \in {"starting", "tracking", "stopping", "failed"}
      /\ capture \in {"success", "failure"} => capture' = capture
  BY CaptureMoves
<1>2. CASE capture' = capture \/ client = "failed"
  BY <1>1, <1>2 DEF MonitorPhase, Noted, CaptureAlive, Abstract!vars
<1>3. CASE capture' # capture /\ client # "failed"
  <2>1. MonitorPhase \in {"starting", "started", "stopping"} /\ MonitorPhase' = MonitorPhase
    BY <1>1, <1>3 DEF MonitorPhase
  <2>2. Noted = {} /\ (Noted)' \in SUBSET {"log"}
    BY <1>1, <1>3 DEF Noted, CaptureAlive, IInv, TypeOK, Child
  <2> QED
    BY <2>1, <2>2 DEF Abstract!Next, Abstract!Note
<1> QED
  BY <1>2, <1>3

\* What main.rs and the packer rely on holds of this monitor
\* (procmon.rs:607-660): no capture outlives a stop() that succeeds.
THEOREM ImplementsMonitorHolds == Spec => ImplementsMonitor
<1>1. Init => Abstract!Init /\ StoppedInv
  BY DEF Init, Abstract!Init, MonitorPhase, Noted, StoppedInv
<1>2. IInv /\ [Next]_vars => IInv'
  BY ClientPreserves, RunPreserves, WaitsFailPreserves, ProcmonPreserves, StutterPreserves DEF Next
<1>3. IInv /\ StoppedInv /\ [Next]_vars => StoppedInv'
  BY StoppedPreserved
<1>4. IInv /\ IInv' /\ StoppedInv /\ [Next]_vars => [Abstract!Next]_(Abstract!vars)
  <2>1. UNCHANGED vars => UNCHANGED Abstract!vars
    BY DEF vars, children, Abstract!vars, MonitorPhase, Noted, CaptureAlive
  <2> QED
    BY <2>1, ClientRefines, RunRefines DEF Next
<1> QED
  BY <1>1, <1>2, <1>3, <1>4, InductiveInvariant, PTL DEF Spec, ImplementsMonitor, Abstract!Spec

-----------------------------------------------------------------------------
(* start() and stop() return.                                              *)

\* stop() comes after start(), which waited for a capture that was up: so a
\* /Terminate that succeeds has ended it.
StopInv ==
    /\ stopSignal => startedSignal
    /\ startedSignal => idle = "success"
    /\ idle = "success" => capture \notin {"none", "starting"}
    /\ terminate = "success" => capture \in {"terminating", "success", "failure"}
    /\ fCancel = "child" => terminate # "none"
    /\ fCancel = "done" => runEnd \/ terminate \in {"success", "failure"}
    /\ task = "export" => export # "none"

LEMMA StopInvPreserved ==
    ASSUME IInv, StopInv, [Next]_vars
    PROVE  StopInv'
<1>1. CASE Client
  BY <1>1 DEF Client, Start, StartReturns, Stop, StopReturns, StopInv, IInv, TypeOK, FuturesInv,
              signals, futures, children
<1>2. CASE Resolve \/ WriteConfig \/ JoinFails \/ ExportDone
  BY <1>2 DEF Resolve, WriteConfig, JoinFails, ExportDone, End, MayBeHeld, StopInv, signals, futures, children
<1>3. CASE SpawnCapture \/ SpawnIdle
  BY <1>3 DEF SpawnCapture, SpawnIdle, StopInv, IInv, TypeOK, FuturesInv, signals
<1>4. CASE CaptureDone \/ IdleDone \/ TerminateDone
  BY <1>4 DEF CaptureDone, IdleDone, TerminateDone, StopInv, IInv, TypeOK, FuturesInv,
              signals, children
<1>5. CASE StopSeen
  BY <1>5 DEF StopSeen, StopInv, IInv, TypeOK, FuturesInv, signals
<1>6. CASE Joined
  BY <1>6 DEF Joined, End, MayBeHeld, StopInv, signals, futures
<1>7. CASE CaptureUp \/ CaptureDies \/ CaptureTerminates
  BY <1>7 DEF CaptureUp, CaptureDies, CaptureTerminates, NoneElse, StopInv, signals, futures
<1>8. CASE IdleExits \/ ExportExits
  BY <1>8 DEF IdleExits, ExportExits, NoneElse, StopInv, IInv, FuturesInv, signals, futures
<1>9. CASE TerminateExits
  BY <1>9 DEF TerminateExits, NoneElse, StopInv, IInv, TypeOK, FuturesInv, Child, signals, futures
<1>10. CASE WaitsFail
  BY <1>10 DEF WaitsFail, WaitFails, ExportWaitFails, End, StopInv, signals, futures, children
<1>11. CASE UNCHANGED vars
  BY <1>11 DEF vars, signals, futures, children, StopInv
<1> QED
  BY <1>1, <1>2, <1>3, <1>4, <1>5, <1>6, <1>7, <1>8, <1>9, <1>10, <1>11 DEF Next, Run, Procmon

LEMMA StopInvHolds == Spec => [](IInv /\ StopInv)
<1>1. Init => StopInv
  BY DEF Init, StopInv
<1> QED
  BY <1>1, StopInvPreserved, InductiveInvariant, PTL DEF Spec

\* run() can go on: it has something to do, or a child has ended that it awaits.
Exited == {"success", "failure"}

RunReady ==
    \/ task \in {"resolve", "config"}
    \/ task = "export" /\ export \in Exited
    \/ /\ task = "join"
       /\ \/ fRun = "init" \/ fWait = "init"
          \/ fRun = "child" /\ capture \in Exited
          \/ fWait = "child" /\ idle \in Exited
          \/ fCancel = "init" /\ stopSignal
          \/ fCancel = "child" /\ terminate \in Exited
          \/ fRun = "done" /\ fWait = "done" /\ fCancel = "done"

\* Where the fairness speaks of a step, the step can be taken.  This is what the
\* guards of the actions say, and a hypothesis of the theorems only because
\* ENABLED is beyond the provers.
GuardsEnable ==
    /\ RunReady => ENABLED <<Run>>_vars
    /\ client = "starting" /\ startedSignal => ENABLED <<StartReturns>>_vars
    /\ client = "stopping" /\ task = "ended" => ENABLED <<StopReturns>>_vars
    /\ capture = "starting" => ENABLED <<CaptureSettles>>_vars
    /\ capture = "terminating" => ENABLED <<CaptureTerminates>>_vars
    /\ idle = "running" => ENABLED <<IdleExits>>_vars
    /\ terminate = "running" => ENABLED <<TerminateExits>>_vars
    /\ export = "running" => ENABLED <<ExportExits>>_vars

\* What the steps of run() achieve, for good.
Milestones == {"Resolve", "WriteConfig", "Joined", "End", "SpawnCapture", "CaptureDone",
               "SpawnIdle", "IdleDone", "StopSeen", "TerminateDone"}

Passed(m) ==
    CASE m = "Resolve"       -> task \notin {"unspawned", "resolve"}
      [] m = "WriteConfig"   -> task \in {"join", "export", "ended"}
      [] m = "Joined"        -> task \in {"export", "ended"}
      [] m = "End"           -> task = "ended"
      [] m = "SpawnCapture"  -> fRun # "init"
      [] m = "CaptureDone"   -> fRun = "done"
      [] m = "SpawnIdle"     -> fWait # "init"
      [] m = "IdleDone"      -> fWait = "done"
      [] m = "StopSeen"      -> fCancel # "init"
      [] m = "TerminateDone" -> fCancel = "done"

\* No step takes back what was achieved.
LEMMA PassedStays ==
    ASSUME NEW m \in Milestones, IInv, [Next]_vars, Passed(m)
    PROVE  Passed(m)'
<1>1. CASE Client
  BY <1>1 DEF Client, Start, StartReturns, Stop, StopReturns, Milestones, Passed, IInv, TypeOK,
              futures
<1>2. CASE Resolve \/ WriteConfig \/ JoinFails \/ Joined \/ ExportDone
  BY <1>2 DEF Resolve, WriteConfig, JoinFails, Joined, ExportDone, End, MayBeHeld, Milestones, Passed, futures
<1>3. CASE SpawnCapture \/ SpawnIdle \/ CaptureDone \/ IdleDone \/ StopSeen \/ TerminateDone
  BY <1>3 DEF SpawnCapture, SpawnIdle, CaptureDone, IdleDone, StopSeen, TerminateDone,
              Milestones, Passed
<1>4. CASE Procmon
  BY <1>4 DEF Procmon, CaptureUp, CaptureDies, CaptureTerminates, IdleExits, TerminateExits,
              ExportExits, NoneElse, Milestones, Passed, futures
<1>5. CASE WaitsFail
  BY <1>5 DEF WaitsFail, WaitFails, ExportWaitFails, End, Milestones, Passed, futures
<1>6. CASE UNCHANGED vars
  BY <1>6 DEF vars, futures, Milestones, Passed
<1> QED
  BY <1>1, <1>2, <1>3, <1>4, <1>5, <1>6 DEF Next, Run

\* Every step of run() achieves something.
LEMMA RunPasses ==
    ASSUME Run
    PROVE  \E m \in Milestones : ~Passed(m) /\ Passed(m)'
<1>1. CASE Resolve
  <2>1. \E m \in {"Resolve"} : ~Passed(m) /\ Passed(m)'
    BY <1>1 DEF Resolve, End, MayBeHeld, Passed
  <2> QED
    BY <2>1 DEF Milestones
<1>2. CASE WriteConfig
  <2>1. \E m \in {"WriteConfig"} : ~Passed(m) /\ Passed(m)'
    BY <1>2 DEF WriteConfig, End, MayBeHeld, Passed
  <2> QED
    BY <2>1 DEF Milestones
<1>3. CASE JoinFails \/ Joined \/ ExportDone
  <2>1. \E m \in {"Joined", "End"} : ~Passed(m) /\ Passed(m)'
    BY <1>3 DEF JoinFails, Joined, ExportDone, End, MayBeHeld, Passed
  <2> QED
    BY <2>1 DEF Milestones
<1>4. CASE SpawnCapture \/ CaptureDone
  <2>1. \E m \in {"SpawnCapture", "CaptureDone"} : ~Passed(m) /\ Passed(m)'
    BY <1>4 DEF SpawnCapture, CaptureDone, Passed
  <2> QED
    BY <2>1 DEF Milestones
<1>5. CASE SpawnIdle \/ IdleDone
  <2>1. \E m \in {"SpawnIdle", "IdleDone"} : ~Passed(m) /\ Passed(m)'
    BY <1>5 DEF SpawnIdle, IdleDone, Passed
  <2> QED
    BY <2>1 DEF Milestones
<1>6. CASE StopSeen \/ TerminateDone
  <2>1. \E m \in {"StopSeen", "TerminateDone"} : ~Passed(m) /\ Passed(m)'
    BY <1>6 DEF StopSeen, TerminateDone, Passed
  <2> QED
    BY <2>1 DEF Milestones
<1> QED
  BY <1>1, <1>2, <1>3, <1>4, <1>5, <1>6 DEF Run

\* So run() takes only so many steps.
LEMMA RunRests == Spec => <>[][~Run]_vars
<1> DEFINE Stays(m) == IInv /\ [Next]_vars /\ Passed(m) => Passed(m)'
<1> DEFINE Achieves(m) == ~Passed(m) /\ Passed(m)'
<1>1. /\ Stays("Resolve") /\ Stays("WriteConfig") /\ Stays("Joined") /\ Stays("End")
      /\ Stays("SpawnCapture") /\ Stays("CaptureDone") /\ Stays("SpawnIdle") /\ Stays("IdleDone")
      /\ Stays("StopSeen") /\ Stays("TerminateDone")
  BY PassedStays DEF Milestones
<1>2. Run =>
        \/ Achieves("Resolve") \/ Achieves("WriteConfig") \/ Achieves("Joined") \/ Achieves("End")
        \/ Achieves("SpawnCapture") \/ Achieves("CaptureDone") \/ Achieves("SpawnIdle")
        \/ Achieves("IdleDone") \/ Achieves("StopSeen") \/ Achieves("TerminateDone")
  BY RunPasses DEF Milestones
<1> QED
  BY <1>1, <1>2, InductiveInvariant, PTL DEF Spec

\* Nobody but run() itself takes from run() what it has to do, short of its end.
LEMMA ReadyStays ==
    ASSUME IInv, [Next]_vars, ~Run, RunReady
    PROVE  RunReady' \/ (task = "ended")'
<1>1. CASE Client
  BY <1>1 DEF Client, Start, StartReturns, Stop, StopReturns, RunReady, IInv, TypeOK,
              futures, children
<1>2. CASE Procmon
  BY <1>2 DEF Procmon, CaptureUp, CaptureDies, CaptureTerminates, IdleExits, TerminateExits,
              ExportExits, NoneElse, RunReady, Exited, signals, futures
<1>3. CASE WaitsFail
  BY <1>3 DEF WaitsFail, WaitFails, ExportWaitFails, End
<1>4. CASE UNCHANGED vars
  BY <1>4 DEF vars, signals, futures, children, RunReady
<1> QED
  BY <1>1, <1>2, <1>3, <1>4 DEF Next

\* Without run(), no process of Process Monitor starts; and what it does ends.
LEMMA ProcmonStays ==
    ASSUME [Next]_vars, ~Run
    PROVE  /\ capture # "starting" => capture' # "starting"
           /\ idle # "running" => idle' # "running"
           /\ terminate # "running" => terminate' # "running"
           /\ export # "running" => export' # "running"
           /\ terminate # "running" /\ capture # "terminating" => capture' # "terminating"
<1>1. CASE Client
  BY <1>1 DEF Client, Start, StartReturns, Stop, StopReturns, children
<1>2. CASE Procmon
  BY <1>2 DEF Procmon, CaptureUp, CaptureDies, CaptureTerminates, IdleExits, TerminateExits,
              ExportExits, NoneElse
<1>3. CASE WaitsFail
  BY <1>3 DEF WaitsFail, WaitFails, ExportWaitFails, children
<1>4. CASE UNCHANGED vars
  BY <1>4 DEF vars, children
<1> QED
  BY <1>1, <1>2, <1>3, <1>4 DEF Next

LEMMA ProcmonEnds ==
    /\ CaptureSettles => capture' # "starting"
    /\ CaptureTerminates => capture' # "terminating"
    /\ IdleExits => idle' # "running"
    /\ TerminateExits => terminate' # "running"
    /\ ExportExits => export' # "running"
BY DEF CaptureSettles, CaptureUp, CaptureDies, CaptureTerminates, IdleExits, TerminateExits,
       ExportExits

\* How the client waits.
LEMMA ClientWaits ==
    ASSUME IInv, [Next]_vars
    PROVE  /\ client = "starting" => (client = "starting")' \/ (client = "tracking")'
           /\ startedSignal => startedSignal'
           /\ client = "stopping" => (client = "stopping")' \/ (client \in {"stopped", "failed"})'
           /\ task = "ended" => (task = "ended")'
<1>1. CASE Client
  BY <1>1 DEF Client, Start, StartReturns, Stop, StopReturns, IInv, TypeOK, signals
<1>2. CASE Run
  BY <1>2 DEF Run, Resolve, WriteConfig, SpawnCapture, SpawnIdle, CaptureDone, IdleDone,
              StopSeen, TerminateDone, JoinFails, Joined, ExportDone, End, MayBeHeld, signals
<1>3. CASE Procmon
  BY <1>3 DEF Procmon, CaptureUp, CaptureDies, CaptureTerminates, IdleExits, TerminateExits,
              ExportExits, NoneElse, signals
<1>4. CASE WaitsFail
  BY <1>4 DEF WaitsFail, WaitFails, ExportWaitFails, End, signals
<1>5. CASE UNCHANGED vars
  BY <1>5 DEF vars, signals
<1> QED
  BY <1>1, <1>2, <1>3, <1>4, <1>5 DEF Next

\* Neither run() nor a child has anything left to do; a capture may go on.
AtRest ==
    /\ ~RunReady
    /\ capture \notin {"starting", "terminating"}
    /\ idle # "running" /\ terminate # "running" /\ export # "running"

\* run() and Process Monitor come to rest, with whatever result and for good;
\* only a capture that nobody has ended goes on (procmon.rs:82-246).
THEOREM ComesToRest == FairSpec /\ []GuardsEnable => <>[]AtRest
<1>1. FairSpec => [][Next]_vars /\ []IInv /\ <>[][~Run]_vars
  BY InductiveInvariant, RunRests, PTL DEF FairSpec, Spec
<1>2. FairSpec /\ []GuardsEnable => <>[]~RunReady
  <2>1. IInv /\ [Next]_vars /\ [~Run]_vars /\ RunReady => RunReady' \/ (task = "ended")'
    BY ReadyStays DEF vars, RunReady, signals, futures, children
  <2>2. IInv /\ [Next]_vars /\ task = "ended" => (task = "ended")'
    BY ClientWaits
  <2>3. task = "ended" => ~RunReady
    BY DEF RunReady
  <2> QED
    BY <1>1, <2>1, <2>2, <2>3, PTL DEF FairSpec, GuardsEnable
<1>3. [Next]_vars /\ [~Run]_vars =>
        /\ ~(capture = "starting") => ~(capture = "starting")'
        /\ ~(idle = "running") => ~(idle = "running")'
        /\ ~(terminate = "running") => ~(terminate = "running")'
        /\ ~(export = "running") => ~(export = "running")'
        /\ ~(terminate = "running") /\ ~(capture = "terminating") => ~(capture = "terminating")'
  BY ProcmonStays DEF vars, children
<1>4. /\ CaptureSettles => ~(capture = "starting")'
      /\ CaptureTerminates => ~(capture = "terminating")'
      /\ IdleExits => ~(idle = "running")'
      /\ TerminateExits => ~(terminate = "running")'
      /\ ExportExits => ~(export = "running")'
  BY ProcmonEnds
<1>5. FairSpec /\ []GuardsEnable => <>[]~(capture = "starting")
  BY <1>1, <1>3, <1>4, PTL DEF FairSpec, GuardsEnable
<1>6. FairSpec /\ []GuardsEnable => <>[]~(idle = "running")
  BY <1>1, <1>3, <1>4, PTL DEF FairSpec, GuardsEnable
<1>7. FairSpec /\ []GuardsEnable => <>[]~(terminate = "running")
  BY <1>1, <1>3, <1>4, PTL DEF FairSpec, GuardsEnable
<1>8. FairSpec /\ []GuardsEnable => <>[]~(export = "running")
  BY <1>1, <1>3, <1>4, PTL DEF FairSpec, GuardsEnable
<1>9. FairSpec /\ []GuardsEnable => <>[]~(capture = "terminating")
  BY <1>1, <1>3, <1>4, <1>7, PTL DEF FairSpec, GuardsEnable
<1>10. /\ ~RunReady /\ ~(capture = "starting") /\ ~(capture = "terminating")
       /\ ~(idle = "running") /\ ~(terminate = "running") /\ ~(export = "running")
       => AtRest
  BY DEF AtRest
<1> QED
  BY <1>2, <1>5, <1>6, <1>7, <1>8, <1>9, <1>10, PTL

\* At rest nobody is left to wait for, but a capture that /Terminate missed.
LEMMA RestMeans ==
    ASSUME IInv, StopInv, AtRest
    PROVE  /\ client = "starting" => startedSignal \/ task = "ended"
           /\ client = "stopping" => task = "ended" \/ terminate = "failure"
<1>1. CASE task = "join"
  <2>1. fRun # "init" /\ fWait # "init" /\ capture \notin {"none", "starting", "terminating"}
    BY <1>1 DEF AtRest, RunReady, IInv, FuturesInv
  <2>2. fWait = "done" /\ startedSignal
    BY <1>1, <2>1 DEF AtRest, RunReady, Exited, IInv, TypeOK, FuturesInv, Child
  <2>3. client = "stopping" => fCancel = "done"
    BY <1>1, <2>1 DEF AtRest, RunReady, Exited, IInv, TypeOK, StopInv, Child
  <2>4. client = "stopping" => fRun = "child" /\ capture = "running"
    BY <1>1, <2>1, <2>2, <2>3 DEF AtRest, RunReady, Exited, IInv, TypeOK, Child
  <2>5. client = "stopping" => terminate = "failure"
    BY <2>3, <2>4 DEF IInv, TypeOK, StopInv
  <2> QED
    BY <2>2, <2>5
<1>2. CASE task # "join"
  BY <1>2 DEF AtRest, RunReady, Exited, IInv, TypeOK, StopInv, Child
<1> QED
  BY <1>1, <1>2

\* start() (procmon.rs:615-629) returns, or run() has ended and it waits on.
THEOREM StartReturnsHolds == FairSpec /\ []GuardsEnable => StartReturnsUnlessTaskEnds
<1>1. FairSpec => [][Next]_vars /\ []IInv /\ []StopInv
  BY StopInvHolds, PTL DEF FairSpec, Spec
<1>2. StartReturns => (client = "tracking")'
  BY DEF StartReturns
<1> QED
  BY <1>1, <1>2, ClientWaits, RestMeans, ComesToRest, PTL
  DEF FairSpec, GuardsEnable, StartReturnsUnlessTaskEnds

\* stop() (procmon.rs:631-640) returns, whatever fails, unless it is /Terminate.
THEOREM StopReturnsHolds == FairSpec /\ []GuardsEnable => StopReturnsUnlessTerminateFails
<1>1. FairSpec => [][Next]_vars /\ []IInv /\ []StopInv
  BY StopInvHolds, PTL DEF FairSpec, Spec
<1>2. StopReturns => (client \in {"stopped", "failed"})'
  BY DEF StopReturns
<1> QED
  BY <1>1, <1>2, ClientWaits, RestMeans, ComesToRest, PTL
  DEF FairSpec, GuardsEnable, StopReturnsUnlessTerminateFails
=============================================================================
