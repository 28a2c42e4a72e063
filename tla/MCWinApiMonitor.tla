--------------------------- MODULE MCWinApiMonitor ---------------------------
(***************************************************************************)
(* A small instance of WinApiMonitor: a file that is created and then has  *)
(* its times and its contents changed, and a directory that is removed.    *)
(***************************************************************************)
EXTENDS WinApiMonitor

CONSTANTS file, directory

MCPaths == {file, directory}

MCEvents ==
    {[id |-> 1, path |-> file,      action |-> "ADDED",    category |-> "FILE_NAME"],
     [id |-> 2, path |-> file,      action |-> "MODIFIED", category |-> "LAST_WRITE"],
     [id |-> 3, path |-> directory, action |-> "REMOVED",  category |-> "DIR_NAME"],
     [id |-> 4, path |-> file,      action |-> "MODIFIED", category |-> "CREATION"]}
=============================================================================
