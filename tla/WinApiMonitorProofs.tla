------------------------- MODULE WinApiMonitorProofs -------------------------
(***************************************************************************)
(* WinApiMonitor for every set of paths, every set of changes and every    *)
(* choice of options: its safety properties, that it is a ChangeMonitor,   *)
(* and that a stop() whose cancellation was accepted returns.              *)
(***************************************************************************)
EXTENDS WinApiMonitor, TLAPS

-----------------------------------------------------------------------------
(* The inductive invariant.                                                *)

\* Which control states go together: above all, a read is in flight only
\* while the task awaits it with no status stored, and a read is aborted only
\* on behalf of a stop().
Phases ==
    /\ client = "new" <=> task = "unspawned"
    /\ client = "stopped" => task \in {"finished", "failed"}
    /\ task \in {"issue", "await"} => status = "Pending"
    /\ task = "await" => io # "unissued"
    /\ task = "finished" => io = "aborted"
    /\ cancelling => client \in {"stopping", "stopped"}
    /\ io = "aborted" => client \in {"stopping", "stopped"}
    /\ io \in {"aborted", "failed"} => task \in {"await", "finished", "failed"}
    /\ cancelling => io # "unissued"

\* Where records can be: a read in flight or aborted holds none, and nothing
\* is queued behind a read in flight.
Places ==
    /\ task \in {"unspawned", "reset", "issue", "finished"} => scratch = {}
    /\ io # "completed" => scratch = {}
    /\ io = "pending" => queue = {}

\* The history is told in order, and what is queued behind an aborted read
\* came after the call of stop().
Histories ==
    /\ due \subseteq recorded
    /\ recorded \subseteq happened
    /\ io = "aborted" => due \cap queue = {}

IInv ==
    /\ TypeOK
    /\ KernelOwnership
    /\ Phases
    /\ Places
    /\ Histories
    /\ Conservation

-----------------------------------------------------------------------------
\* A change that the options track is announced under the mask the monitor
\* asks for: notify_change_mask covers get_meta.
LEMMA TrackedIsReported ==
    ASSUME NEW e \in Events, Tracked(e)
    PROVE  Reported(e)
<1>1. /\ e.action \in Actions /\ e.category \in Categories
      /\ e.action # "MODIFIED" <=> e.category \in {"FILE_NAME", "DIR_NAME"}
  BY EventsAssumption
<1>2. PICK f \in options : <<f, e.action>> \in FlagOf
  BY DEF Tracked, GetMeta, NoFlags
<1>3. CASE f = "modified"
  <2>1. e.action = "MODIFIED"
    BY <1>2, <1>3 DEF FlagOf
  <2>2. e.category \in {"LAST_WRITE", "SIZE"}
    BY <2>1, <1>1 DEF Tracked, Categories
  <2> QED
    BY <2>2, <1>2, <1>3 DEF Reported, NotifyChangeMask
<1>4. CASE f # "modified"
  <2>1. f \in {"created", "deleted", "renamed"} /\ e.action # "MODIFIED"
    BY <1>2, <1>4 DEF FlagOf
  <2>2. e.category \in {"FILE_NAME", "DIR_NAME"}
    BY <2>1, <1>1
  <2> QED
    BY <2>1, <2>2, <1>2 DEF Reported, NotifyChangeMask
<1> QED
  BY <1>3, <1>4

\* A record never yields a flag that the options do not track.
LEMMA MetaIsTracked ==
    ASSUME NEW action
    PROVE  GetMeta(action) \subseteq options
BY DEF GetMeta

-----------------------------------------------------------------------------
LEMMA InitEstablishes == Init => IInv
<1> SUFFICES ASSUME Init PROVE IInv
  OBVIOUS
<1> USE DEF Init, NoFlags
<1>1. TypeOK
  BY DEF TypeOK
<1>2. KernelOwnership /\ Phases /\ Places /\ Histories
  BY DEF KernelOwnership, Phases, Places, Histories
<1>3. Conservation
  BY DEF Conservation
<1> QED
  BY <1>1, <1>2, <1>3 DEF IInv

-----------------------------------------------------------------------------
(* A turn of the loop that merges.                                         *)

LEMMA MergePreserves ==
    ASSUME IInv, MergeRecords
    PROVE  IInv'
<1> DEFINE InScratch(p) == {x \in scratch : x.path = p}
           New(p) == UNION {GetMeta(e.action) : e \in InScratch(p)}
<1>1. /\ task = "merge" /\ task' = "reset"
      /\ ret' = [p \in Paths |-> Merge(ret[p], New(p))]
      /\ merged' = merged \cup scratch /\ scratch' = {}
      /\ UNCHANGED <<clientVars, futureVars, kernelVars, happened, recorded, due, lost>>
  BY DEF MergeRecords
<1>2. TypeOK'
  <2>1. \A p \in Paths : ret'[p] = ret[p] \cup New(p)
    BY <1>1 DEF Merge
  <2>2. ASSUME NEW p \in Paths PROVE New(p) \subseteq options
    BY MetaIsTracked
  <2>3. ret' \in [Paths -> SUBSET options]
    <3>1. ASSUME NEW p \in Paths PROVE Merge(ret[p], New(p)) \in SUBSET options
      <4>1. ret[p] \in SUBSET options
        BY DEF IInv, TypeOK
      <4> QED
        BY <4>1, <2>2 DEF Merge
    <3> QED
      BY <1>1, <3>1
  <2>4. merged' \subseteq Events /\ scratch' \subseteq Events
    BY <1>1 DEF IInv, TypeOK
  <2> QED
    BY <1>1, <2>3, <2>4 DEF IInv, TypeOK, clientVars, futureVars, kernelVars
<1>3. KernelOwnership' /\ Phases' /\ Places' /\ Histories'
  BY <1>1 DEF IInv, TypeOK, KernelOwnership, Phases, Places, Histories,
              clientVars, futureVars, kernelVars
<1>4. Conservation'
  <2>1. ASSUME NEW p \in Paths
        PROVE  ret'[p] = UNION {GetMeta(e.action)' : e \in {x \in merged' : x.path = p}}
    <3>1. ret'[p] = ret[p] \cup New(p)
      BY <1>1 DEF Merge
    <3>2. ret[p] = UNION {GetMeta(e.action) : e \in {x \in merged : x.path = p}}
      BY DEF IInv, Conservation
    <3>3. \A e : GetMeta(e.action)' = GetMeta(e.action)
      BY <1>1 DEF GetMeta, clientVars
    <3> QED
      BY <1>1, <3>1, <3>2, <3>3
  <2> QED
    BY <1>1, <2>1 DEF IInv, Conservation, clientVars, futureVars, kernelVars
<1> QED
  BY <1>2, <1>3, <1>4 DEF IInv

-----------------------------------------------------------------------------
(* The other steps of the task, and those of the client.                   *)

\* The map part of Conservation only depends on what these steps leave alone.
LEMMA MapUntouched ==
    ASSUME Conservation, UNCHANGED <<options, ret, merged>>
    PROVE  \A p \in Paths :
              ret'[p] = UNION {GetMeta(e.action)' : e \in {x \in merged' : x.path = p}}
<1>1. \A a : GetMeta(a)' = GetMeta(a)
  BY DEF GetMeta
<1> QED
  BY <1>1 DEF Conservation

LEMMA ClientPreserves ==
    ASSUME IInv, Client
    PROVE  IInv'
<1>1. UNCHANGED <<options, task, ret, futureVars, scratch, kernelVars, history>>
      \/ UNCHANGED <<options, ret, status, io, stray, scratch, kernelVars, history>>
  BY DEF Client, Start, StopCall, StopJoin, futureVars
<1>2. TypeOK' /\ KernelOwnership' /\ Phases' /\ Places' /\ Histories'
  <2>1. CASE Start
    BY <2>1 DEF IInv, TypeOK, KernelOwnership, Phases, Places, Histories,
                Start, futureVars, kernelVars, history
  <2>2. CASE StopCall
    BY <2>2 DEF IInv, TypeOK, KernelOwnership, Phases, Places, Histories,
                StopCall, kernelVars, history
  <2>3. CASE StopJoin
    BY <2>3 DEF IInv, TypeOK, KernelOwnership, Phases, Places, Histories,
                StopJoin, futureVars, kernelVars, history
  <2> QED
    BY <2>1, <2>2, <2>3 DEF Client
<1>3. Conservation'
  BY <1>1, MapUntouched DEF IInv, Conservation, history, kernelVars
<1> QED
  BY <1>2, <1>3 DEF IInv

LEMMA TaskPreserves ==
    ASSUME IInv, Task
    PROVE  IInv'
<1>1. CASE MergeRecords
  BY <1>1, MergePreserves
<1>2. CASE Reset
  <2>1. TypeOK' /\ KernelOwnership' /\ Phases' /\ Places' /\ Histories'
    BY <1>2 DEF IInv, TypeOK, KernelOwnership, Phases, Places, Histories,
                Reset, clientVars, kernelVars, history
  <2>2. Conservation'
    BY <1>2, MapUntouched DEF IInv, Conservation, Reset, clientVars, kernelVars, history
  <2> QED
    BY <2>1, <2>2 DEF IInv
<1>3. CASE IssueRead
  <2>1. scratch = {} /\ scratch' = queue /\ queue' = {}
    BY <1>3 DEF IInv, Places, IssueRead
  <2>2. TypeOK' /\ KernelOwnership' /\ Phases' /\ Places' /\ Histories'
    BY <1>3, <2>1 DEF IInv, TypeOK, KernelOwnership, Phases, Places, Histories,
                      IssueRead, clientVars, history
  <2>3. Conservation'
    BY <1>3, <2>1, MapUntouched DEF IInv, Conservation, IssueRead, clientVars, history
  <2> QED
    BY <2>2, <2>3 DEF IInv
<1>4. CASE RequestFails
  <2>1. TypeOK' /\ KernelOwnership' /\ Phases' /\ Places' /\ Histories'
    BY <1>4 DEF IInv, TypeOK, KernelOwnership, Phases, Places, Histories,
                RequestFails, clientVars, futureVars, kernelVars, history
  <2>2. Conservation'
    BY <1>4, MapUntouched DEF IInv, Conservation, RequestFails, clientVars, kernelVars, history
  <2> QED
    BY <2>1, <2>2 DEF IInv
<1>5. CASE PollFuture
  <2>1. status = "Pending" /\ io \in {"completed", "aborted", "failed"}
    BY <1>5 DEF IInv, TypeOK, Phases, PollFuture, PollReady
  <2>2. TypeOK' /\ KernelOwnership' /\ Phases' /\ Places' /\ Histories'
    BY <1>5, <2>1 DEF IInv, TypeOK, KernelOwnership, Phases, Places, Histories,
                PollFuture, PollResult, clientVars, kernelVars, history
  <2>3. Conservation'
    BY <1>5, MapUntouched DEF IInv, Conservation, PollFuture, clientVars, kernelVars, history
  <2> QED
    BY <2>2, <2>3 DEF IInv
<1>6. CASE ParseFails
  <2>1. TypeOK' /\ KernelOwnership' /\ Phases' /\ Places' /\ Histories'
    BY <1>6 DEF IInv, TypeOK, KernelOwnership, Phases, Places, Histories,
                ParseFails, clientVars, futureVars, kernelVars, history
  <2>2. Conservation'
    BY <1>6, MapUntouched DEF IInv, Conservation, ParseFails, clientVars, kernelVars, history
  <2> QED
    BY <2>1, <2>2 DEF IInv
<1> QED
  BY <1>1, <1>2, <1>3, <1>4, <1>5, <1>6 DEF Task

-----------------------------------------------------------------------------
(* The kernel: a change is new, so it is in none of the places yet, and a  *)
(* change that is owed is announced.                                       *)

LEMMA ChangePreserves ==
    ASSUME IInv, NEW e \in Events, Change(e)
    PROVE  IInv'
<1>1. /\ e \notin recorded /\ e \notin due
      /\ e \notin merged /\ e \notin scratch /\ e \notin queue /\ e \notin lost
  BY DEF IInv, Histories, Conservation, Change
<1>2. CASE ~(watching /\ Reported(e))
  <2>1. /\ due' = due
        /\ UNCHANGED <<io, scratch, queue, overflowed, recorded, lost>>
    BY <1>2, TrackedIsReported DEF Change
  <2>2. TypeOK' /\ KernelOwnership' /\ Phases' /\ Places' /\ Histories'
    BY <2>1 DEF IInv, TypeOK, KernelOwnership, Phases, Places, Histories,
                Change, clientVars
  <2>3. Conservation'
    BY <2>1, MapUntouched DEF IInv, Conservation, Change, clientVars
  <2> QED
    BY <2>2, <2>3 DEF IInv
<1>3. CASE watching /\ Reported(e) /\ io = "pending"
  <2>1. /\ recorded' = recorded \cup {e}
        /\ io' = "completed" /\ scratch' = {e}
        /\ UNCHANGED <<queue, overflowed, lost>>
    BY <1>3 DEF Change, Announce
  <2>2. scratch = {}
    BY <1>3 DEF IInv, Places
  <2>3. TypeOK' /\ KernelOwnership' /\ Phases' /\ Places' /\ Histories'
    BY <1>3, <2>1 DEF IInv, TypeOK, KernelOwnership, Phases, Places, Histories,
                      Change, clientVars
  <2>4. Conservation'
    BY <1>1, <2>1, <2>2, MapUntouched DEF IInv, Conservation, Change, clientVars
  <2> QED
    BY <2>3, <2>4 DEF IInv
<1>4. CASE watching /\ Reported(e) /\ io # "pending"
  <2>1. /\ recorded' = recorded \cup {e}
        /\ overflowed' \in {overflowed, TRUE}
        /\ queue' = IF overflowed' THEN {} ELSE queue \cup {e}
        /\ lost' = IF overflowed' THEN lost \cup queue \cup {e} ELSE lost
        /\ UNCHANGED <<io, scratch>>
    BY <1>4 DEF Change, Announce
  <2>2. Histories'
    <3>1. due' \subseteq recorded' /\ recorded' \subseteq happened'
      BY <2>1 DEF IInv, Histories, Change
    <3>2. io' = "aborted" => due' \cap queue' = {}
      BY <1>1, <2>1 DEF IInv, Histories, Phases, Change
    <3> QED
      BY <3>1, <3>2 DEF Histories
  <2>3. TypeOK'
    <3>1. overflowed' \in BOOLEAN
      BY <2>1 DEF IInv, TypeOK
    <3>2. queue \subseteq Events /\ lost \subseteq Events
      BY DEF IInv, TypeOK
    <3>3. queue' \subseteq Events /\ lost' \subseteq Events
      BY <2>1, <3>2
    <3> QED
      BY <2>1, <3>1, <3>3 DEF IInv, TypeOK, Change, clientVars
  <2>4. KernelOwnership' /\ Phases' /\ Places'
    BY <1>4, <2>1 DEF IInv, KernelOwnership, Phases, Places, Change, clientVars
  <2>5. Conservation'
    <3>1. /\ recorded' = merged' \cup scratch' \cup queue' \cup lost'
          /\ merged' \cap (scratch' \cup queue' \cup lost') = {}
          /\ scratch' \cap (queue' \cup lost') = {}
          /\ queue' \cap lost' = {}
      BY <1>1, <2>1 DEF IInv, Conservation, Change
    <3> QED
      BY <3>1, MapUntouched DEF IInv, Conservation, Change, clientVars
  <2> QED
    BY <2>2, <2>3, <2>4, <2>5 DEF IInv
<1> QED
  BY <1>2, <1>3, <1>4

LEMMA KernelPreserves ==
    ASSUME IInv, Kernel
    PROVE  IInv'
<1>1. CASE \E e \in Events : Change(e)
  BY <1>1, ChangePreserves
<1>2. CASE CompleteCancel
  <2>1. TypeOK' /\ KernelOwnership' /\ Phases' /\ Places' /\ Histories'
    BY <1>2 DEF IInv, TypeOK, KernelOwnership, Phases, Places, Histories,
                CompleteCancel, clientVars, kernelVars, history
  <2>2. Conservation'
    BY <1>2, MapUntouched DEF IInv, Conservation, CompleteCancel, clientVars, kernelVars, history
  <2> QED
    BY <2>1, <2>2 DEF IInv
<1>3. CASE ReadFails
  <2>1. TypeOK' /\ KernelOwnership' /\ Phases' /\ Places' /\ Histories'
    BY <1>3 DEF IInv, TypeOK, KernelOwnership, Phases, Places, Histories,
                ReadFails, clientVars, kernelVars, history
  <2>2. Conservation'
    BY <1>3, MapUntouched DEF IInv, Conservation, ReadFails, clientVars, kernelVars, history
  <2> QED
    BY <2>1, <2>2 DEF IInv
<1> QED
  BY <1>1, <1>2, <1>3 DEF Kernel

LEMMA StutterPreserves ==
    ASSUME IInv, UNCHANGED vars
    PROVE  IInv'
<1> USE DEF vars, clientVars, futureVars, kernelVars, history
<1>1. TypeOK' /\ KernelOwnership' /\ Phases' /\ Places' /\ Histories'
  BY DEF IInv, TypeOK, KernelOwnership, Phases, Places, Histories
<1>2. Conservation'
  BY MapUntouched DEF IInv, Conservation
<1> QED
  BY <1>1, <1>2 DEF IInv

-----------------------------------------------------------------------------
\* The inductive invariant holds throughout.
THEOREM InductiveInvariant == Spec => []IInv
<1>1. Init => IInv
  BY InitEstablishes
<1>2. IInv /\ [Next]_vars => IInv'
  BY ClientPreserves, TaskPreserves, KernelPreserves, StutterPreserves DEF Next
<1> QED
  BY <1>1, <1>2, PTL DEF Spec

\* The map never holds a flag the options do not track (winapi.rs:200-206),
\* and the variables stay within their types.
THEOREM TypeCorrect == Spec => []TypeOK
<1>1. IInv => TypeOK
  BY DEF IInv
<1> QED
  BY <1>1, InductiveInvariant, PTL

\* Neither the buffer nor the OVERLAPPED is touched or freed while the kernel
\* may write to it (winapi.rs:115-151, overlapped_future.rs:86-98).
THEOREM KernelOwnershipHolds == Spec => []KernelOwnership
<1>1. IInv => KernelOwnership
  BY DEF IInv
<1> QED
  BY <1>1, InductiveInvariant, PTL

\* Every announced change is in one place: merged, in the buffer, queued, or
\* dropped by an overflow; and the map is what the merged ones amount to.
THEOREM ConservationHolds == Spec => []Conservation
<1>1. IInv => Conservation
  BY DEF IInv
<1> QED
  BY <1>1, InductiveInvariant, PTL

\* The map of a successful stop() is complete up to overflows
\* (winapi.rs:230-251 and 257-272): a task that finished did so because its
\* read was aborted, with an empty buffer and nothing owed in the queue.
THEOREM StoppedIsCompleteHolds == Spec => []StoppedIsComplete
<1>1. ASSUME IInv PROVE StoppedIsComplete
  <2> SUFFICES ASSUME client = "stopped", task = "finished"
               PROVE  due \ lost \subseteq merged
    BY DEF StoppedIsComplete
  <2>1. io = "aborted"
    BY <1>1 DEF IInv, Phases
  <2>2. scratch = {} /\ due \cap queue = {}
    BY <1>1, <2>1 DEF IInv, Places, Histories
  <2>3. due \subseteq merged \cup scratch \cup queue \cup lost
    BY <1>1 DEF IInv, Histories, Conservation
  <2> QED
    BY <2>2, <2>3
<1> QED
  BY <1>1, InductiveInvariant, PTL

-----------------------------------------------------------------------------
(* The monitor implements the trait's specification.                       *)

\* A step that leaves the client and what was merged alone is a stutter,
\* unless it ends the task of a stopped client: then the client would not be.
LEMMA StutterOfMonitor ==
    ASSUME IInv, UNCHANGED <<client, merged>>,
           task' = task \/ client # "stopped"
    PROVE  UNCHANGED Abstract!vars
BY DEF Abstract!vars, MonitorPhase, Noted

LEMMA ClientRefines ==
    ASSUME IInv, Client
    PROVE  [Abstract!Next]_(Abstract!vars)
<1>1. merged' = merged
  BY DEF Client, Start, StopCall, StopJoin, history
<1>2. CASE Start
  BY <1>1, <1>2 DEF Start, MonitorPhase, Noted, Abstract!Next, Abstract!Start
<1>3. CASE StopCall
  <2>1. client = "running" /\ client' \in {"stopping", "stopFailed"}
    BY <1>3 DEF StopCall
  <2> QED
    BY <1>1, <2>1 DEF MonitorPhase, Noted, Abstract!Next, Abstract!Stop, Abstract!Fail
<1>4. CASE StopJoin
  <2>1. /\ client = "stopping" /\ client' = "stopped"
        /\ task \in {"finished", "failed"} /\ task' = task
    BY <1>4 DEF StopJoin
  <2> QED
    BY <1>1, <2>1 DEF MonitorPhase, Noted, Abstract!Next, Abstract!StopReturns, Abstract!Fail
<1> QED
  BY <1>2, <1>3, <1>4 DEF Client

LEMMA TaskRefines ==
    ASSUME IInv, Task
    PROVE  [Abstract!Next]_(Abstract!vars)
<1>1. client' = client /\ client \notin {"new", "stopped"}
  BY DEF Task, Reset, IssueRead, RequestFails, PollFuture, MergeRecords, ParseFails,
         clientVars, IInv, Phases
<1>2. CASE MergeRecords
  <2>1. merged' = merged \cup scratch /\ merged \cup scratch \subseteq Events
    BY <1>2 DEF MergeRecords, IInv, TypeOK
  <2>2. MonitorPhase' = MonitorPhase /\ MonitorPhase \in {"started", "stopping", "failed"}
    BY <1>1 DEF MonitorPhase, IInv, TypeOK
  <2>3. CASE MonitorPhase = "failed"
    BY <2>2, <2>3 DEF Noted, Abstract!vars
  <2>4. CASE MonitorPhase \in {"started", "stopping"}
    BY <2>1, <2>2, <2>4 DEF Noted, Abstract!Next, Abstract!Note
  <2> QED
    BY <2>2, <2>3, <2>4
<1>3. CASE ~MergeRecords
  <2>1. merged' = merged
    BY <1>3 DEF Task, Reset, IssueRead, RequestFails, PollFuture, ParseFails, history
  <2> QED
    BY <1>1, <2>1, StutterOfMonitor
<1> QED
  BY <1>2, <1>3

\* What main.rs and the packer rely on holds of this monitor (winapi.rs:211-284):
\* its map grows between start() and stop() and is fixed after that.
THEOREM ImplementsMonitorHolds == Spec => ImplementsMonitor
<1>1. Init => Abstract!Init
  BY DEF Init, Abstract!Init, MonitorPhase, Noted
<1>2. IInv /\ [Next]_vars => [Abstract!Next]_(Abstract!vars)
  <2> SUFFICES ASSUME IInv, [Next]_vars PROVE [Abstract!Next]_(Abstract!vars)
    OBVIOUS
  <2>1. CASE Client
    BY <2>1, ClientRefines
  <2>2. CASE Task
    BY <2>2, TaskRefines
  <2>3. CASE Kernel
    <3>1. UNCHANGED <<client, merged, task>>
      BY <2>3 DEF Kernel, Change, CompleteCancel, ReadFails, clientVars, history
    <3> QED
      BY <3>1, StutterOfMonitor
  <2>4. CASE UNCHANGED vars
    BY <2>4, StutterOfMonitor DEF vars, clientVars, history
  <2> QED
    BY <2>1, <2>2, <2>3, <2>4 DEF Next
<1> QED
  BY <1>1, <1>2, InductiveInvariant, PTL DEF Spec, ImplementsMonitor, Abstract!Spec

-----------------------------------------------------------------------------
(* stop() returns.                                                         *)

\* Where a call of stop() is, once its cancellation was accepted: the read is
\* still in flight, it has ended without a change, the task has ended.
Cancelled == client = "stopping" /\ cancelling /\ io = "pending"
Ended     == client = "stopping" /\ io \in {"aborted", "failed"} /\ task = "await"
Joinable  == client = "stopping" /\ io # "completed" /\ task \in {"finished", "failed"}
ReadWon   == client = "stopping" /\ io = "completed"
Returned  == client = "stopped"

\* At each of them a step that the fairness speaks of can be taken.  This is
\* what the guards of the three actions say, and a hypothesis below only because
\* ENABLED is beyond the provers.
GuardsEnable ==
    /\ Cancelled => ENABLED <<CompleteCancel>>_vars
    /\ Ended => ENABLED <<PollFuture>>_vars
    /\ Joinable => ENABLED <<StopJoin>>_vars

\* From there no step leads but on: to the next place, or to a read that won.
LEMMA StopMoves ==
    ASSUME IInv, [Next]_vars
    PROVE  /\ Cancelled => Cancelled' \/ Ended' \/ ReadWon'
           /\ Ended => Ended' \/ Joinable'
           /\ Joinable => Joinable' \/ Returned'
<1> USE DEF IInv, TypeOK, KernelOwnership, Phases, Cancelled, Ended, Joinable, ReadWon, Returned
<1>1. CASE Client
  BY <1>1 DEF Client, Start, StopCall, StopJoin, futureVars, clientVars
<1>2. CASE Task
  BY <1>2 DEF Task, Reset, IssueRead, RequestFails, PollFuture, PollReady, PollResult,
              MergeRecords, ParseFails, futureVars, clientVars
<1>3. CASE Kernel
  <2>1. ASSUME NEW e \in Events, Change(e)
        PROVE  /\ UNCHANGED <<client, cancelling, task>>
               /\ io' = io \/ (io = "pending" /\ io' = "completed")
    BY <2>1 DEF Change, Announce, clientVars
  <2>2. ASSUME CompleteCancel \/ ReadFails
        PROVE  UNCHANGED <<client, cancelling, task>> /\ io = "pending" /\ io' \in {"aborted", "failed"}
    BY <2>2 DEF CompleteCancel, ReadFails, clientVars
  <2> QED
    BY <1>3, <2>1, <2>2 DEF Kernel
<1>4. CASE UNCHANGED vars
  BY <1>4 DEF vars, clientVars, futureVars
<1> QED
  BY <1>1, <1>2, <1>3, <1>4 DEF Next

\* And the step that is due does lead on.
LEMMA StopSteps ==
    ASSUME IInv
    PROVE  /\ Cancelled /\ <<CompleteCancel>>_vars => Ended'
           /\ Ended /\ <<PollFuture>>_vars => Joinable'
           /\ Joinable /\ <<StopJoin>>_vars => Returned'
BY DEF IInv, KernelOwnership, Phases, Cancelled, Ended, Joinable, Returned, CompleteCancel, PollFuture,
       PollReady, PollResult, StopJoin, clientVars

\* For all paths, changes and options: a stop() whose cancellation was accepted
\* returns, unless a change completes the read all the same.
THEOREM StopReturns == FairSpec /\ []GuardsEnable => StopReturnsUnlessReadWon
<1>1. FairSpec => [][Next]_vars /\ []IInv
  BY InductiveInvariant, PTL DEF FairSpec, Spec
<1>2. IInv /\ client = "stopping" /\ cancelling => Cancelled \/ Ended \/ Joinable \/ ReadWon
  BY DEF IInv, TypeOK, Phases, Cancelled, Ended, Joinable, ReadWon
<1>3. FairSpec /\ []GuardsEnable => (Cancelled ~> Ended \/ ReadWon)
  BY <1>1, StopMoves, StopSteps, PTL DEF FairSpec, Fairness, GuardsEnable
<1>4. FairSpec /\ []GuardsEnable => (Ended ~> Joinable)
  BY <1>1, StopMoves, StopSteps, PTL DEF FairSpec, Fairness, GuardsEnable
<1>5. FairSpec /\ []GuardsEnable => (Joinable ~> Returned)
  BY <1>1, StopMoves, StopSteps, PTL DEF FairSpec, Fairness, GuardsEnable
<1> QED
  BY <1>1, <1>2, <1>3, <1>4, <1>5, PTL DEF StopReturnsUnlessReadWon, ReadWon, Returned
=============================================================================
