---------------------------- MODULE ArchiveWriter ----------------------------
(***************************************************************************)
(* src/packer.rs, Packer::write_out as its callers see it: one call, after *)
(* which the output is as it was, or broken, or a complete archive.  The   *)
(* sessions of the program are composed with this module, and Packer       *)
(* implements it.                                                          *)
(***************************************************************************)

VARIABLES
    writer,     \* "idle", "writing", "done", "failed"
    output,     \* the file at PackerOptions.output
    overwrite   \* PackerOptions.overwrite

vars == <<writer, output, overwrite>>

\* "older" is whatever was there before; "partial" is what an opened output
\* holds until the archive is finished, and for ever if it never is.
Outputs == {"absent", "older", "partial", "complete"}

Init ==
    /\ writer = "idle"
    /\ output \in {"absent", "older"}
    /\ overwrite \in BOOLEAN

\* `create(true).truncate(true)` or `create_new(true)`.
Open ==
    /\ writer = "idle"
    /\ overwrite \/ output = "absent"
    /\ writer' = "writing" /\ output' = "partial"
    /\ UNCHANGED overwrite

\* The output cannot be opened, or is there and must not be overwritten.
Refuse ==
    /\ writer = "idle"
    /\ writer' = "failed"
    /\ UNCHANGED <<output, overwrite>>

Finish ==
    /\ writer = "writing"
    /\ writer' = "done" /\ output' = "complete"
    /\ UNCHANGED overwrite

Break ==
    /\ writer = "writing"
    /\ writer' = "failed"
    /\ UNCHANGED <<output, overwrite>>

Next == Open \/ Refuse \/ Finish \/ Break

Spec == Init /\ [][Next]_vars
=============================================================================
