---------------------------- MODULE MCProcmonLog ----------------------------
(***************************************************************************)
(* A small instance of ProcmonLog: three processes in a chain, a stranger, *)
(* and a process whose parent the log does not have; logs of three events. *)
(***************************************************************************)
EXTENDS ProcmonLog

CONSTANTS target, other, old, new

MCPaths == {old, new}

Proc(pid, parent) == [pid |-> pid, parent |-> parent]

\* 1 is its own parent, the root; 2 to 4 hang below it in different ways.
MCTables ==
    {<<Proc(other, 1), Proc(target, 1), Proc(other, 2), Proc(other, 3)>>,
     <<Proc(target, 1), Proc(other, 1), Proc(other, 9), Proc(other, 3)>>,
     <<Proc(other, 1), Proc(other, 1), Proc(other, 2), Proc(target, 1)>>,
     <<Proc(other, 1), Proc(other, 1)>>}

MCSettings ==
    {[flags |-> f, registry |-> r, pid |-> p, children |-> c] :
        f \in {{"created", "modified"}, {"deleted", "renamed"}}, r \in BOOLEAN,
        p \in {target, Nothing}, c \in BOOLEAN}

Event(process, operation, type, outcome, path, fileName, result) ==
    [process |-> process, operation |-> operation, type |-> type, outcome |-> outcome,
     path |-> path, fileName |-> fileName, result |-> result]

MCEvents ==
    {Event(4, "CreateFile", Nothing, o, old, Nothing, "SUCCESS") : o \in {"Created", "Superseded"}}
    \cup {Event(4, "CreateFile", Nothing, "Overwritten", new, Nothing, "SHARING VIOLATION"),
          Event(2, "FASTIO_PREPARE_MDL_WRITE", Nothing, Nothing, old, Nothing, "SUCCESS"),
          Event(3, "FASTIO_SET_INFORMATION", "SetRenameInformationEx", Nothing, old, new, "SUCCESS"),
          Event(4, "FASTIO_SET_INFORMATION", Nothing, Nothing, old, Nothing, "SUCCESS"),
          Event(2, "IRP_MJ_SET_INFORMATION", "SetDispositionInformationFile", Nothing, old, Nothing,
                "SUCCESS"),
          Event(3, "SetRenameInformationEx", Nothing, Nothing, old, Nothing, "SUCCESS"),
          Event(4, "SetRenameInformationFile", Nothing, Nothing, old, Nothing, "SUCCESS"),
          Event(2, "SetInformationFile", "SetDispositionInformationFile", Nothing, new, Nothing,
                "SUCCESS"),
          Event(1, "RegCreateKey", Nothing, "REG_CREATED_NEW_KEY", old, Nothing, "SUCCESS"),
          Event(3, "RegSetValue", Nothing, Nothing, old, Nothing, "SUCCESS"),
          Event(4, "RegDeleteValue", Nothing, Nothing, old, Nothing, "SUCCESS"),
          Event(9, "RegRenameKey", Nothing, Nothing, new, Nothing, "SUCCESS")}
=============================================================================
