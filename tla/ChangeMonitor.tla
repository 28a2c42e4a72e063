---------------------------- MODULE ChangeMonitor ----------------------------
(***************************************************************************)
(* src/monitor/mod.rs, the trait Monitor: what main.rs and the packer rely *)
(* on, whichever monitor new_boxed made.  A client calls start() once and  *)
(* stop() once.  What the monitor has noted grows from the one call to the *)
(* other and is fixed from the return of stop() on, however often and late *)
(* get_changed_files() is asked.  A call that fails says so, and then      *)
(* nothing is answered any more.                                           *)
(*                                                                         *)
(* The monitors' own modules implement this one, and the sessions of the   *)
(* program are composed with it.                                           *)
(***************************************************************************)

CONSTANT Changes    \* what a monitor may note

VARIABLES
    phase,  \* between which calls the monitor is
    noted   \* what get_changed_files() is answered from

vars == <<phase, noted>>

Phases == {"new", "starting", "started", "stopping", "stopped", "failed"}

Init == phase = "new" /\ noted = {}

\* start() is called; a monitor that has nothing to wait for returns at once.
Start ==
    /\ phase = "new"
    /\ phase' \in {"starting", "started"}
    /\ UNCHANGED noted

StartReturns ==
    /\ phase = "starting"
    /\ phase' = "started"
    /\ UNCHANGED noted

Note ==
    /\ phase \in {"starting", "started", "stopping"}
    /\ noted' \in SUBSET Changes /\ noted \subseteq noted'
    /\ UNCHANGED phase

Stop ==
    /\ phase = "started"
    /\ phase' \in {"stopping", "stopped"}
    /\ UNCHANGED noted

StopReturns ==
    /\ phase = "stopping"
    /\ phase' = "stopped"
    /\ UNCHANGED noted

\* start(), stop() or get_changed_files() returns an error.
Fail ==
    /\ phase # "failed"
    /\ phase' = "failed" /\ noted' = {}

Next == Start \/ StartReturns \/ Note \/ Stop \/ StopReturns \/ Fail

Spec == Init /\ [][Next]_vars
=============================================================================
