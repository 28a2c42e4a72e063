------------------------------ MODULE MCPacker ------------------------------
(***************************************************************************)
(* An instance of Packer: a file in the monitored directory with a second  *)
(* name, one of the same name outside of it, and a reserved one.           *)
(***************************************************************************)
EXTENDS Packer

Drive == "C:"
Verbatim == "?C:"

\* Two file names that are no valid Unicode look alike in the archive.
inside   == <<Drive, Root, "d", "f1">>
alias    == <<Drive, Root, "l", "f1">>
outside  == <<Drive, Root, "d", "..", "f2">>
extend   == <<Drive, Root, "$Extend">>
theBase  == <<Drive, Root, "d">>

Real(names) == <<Verbatim, Root>> \o names

MCCanonical ==
    [p \in {inside, alias, Real(<<"d", "f1">>)} |-> Real(<<"d", "f1">>)]
    @@ [p \in {outside, <<Drive, Root, "f2">>, Real(<<"f2">>)} |-> Real(<<"f2">>)]
    @@ [p \in {extend, Real(<<"$Extend">>)} |-> Real(<<"$Extend">>)]
    @@ [p \in {theBase, Real(<<"d">>)} |-> Real(<<"d">>)]

MCDrives == {Drive, Verbatim}
MCReserved == {"$Extend"}
MCZipName == [n \in {"d", "l", "f1", "f2", "$Extend", "unknown_file"} |->
                 IF n \in {"f1", "f2"} THEN "f?" ELSE n]
MCReports == {inside, alias, outside, extend}
MCInitialSizes ==
    {[f \in Files |-> IF f = Real(<<"f2">>) THEN 1 ELSE IF f = Real(<<"d", "f1">>) THEN n ELSE 0] :
        n \in {-1, 1, 2}}
MCAnswers == {{inside, alias, outside}, {inside, outside, extend}}
=============================================================================
