---------------------------- MODULE MCUsnMonitor ----------------------------
(***************************************************************************)
(* A small instance of UsnMonitor: two files, two paths that end in one    *)
(* name, a buffer of two records, so that a range takes several reads and  *)
(* a read may reach past the end of its range.                             *)
(***************************************************************************)
EXTENDS UsnMonitor

CONSTANTS f1, f2, a, b, n, denied

MCFiles == {f1, f2}
MCNames == {a, b}
MCBare(path) == n
MCCodes == {denied}
MCOptions == {"modified", "deleted", "renamed"}
MCInitialName == [f \in MCFiles |-> IF f = f1 THEN a ELSE Unborn]
MCTouches == {"DATA_EXTEND", "HARD_LINK_CHANGE", "REPARSE_POINT_CHANGE"}
=============================================================================
