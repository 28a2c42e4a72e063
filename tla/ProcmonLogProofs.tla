-------------------------- MODULE ProcmonLogProofs --------------------------
(***************************************************************************)
(* The maps made of a Process Monitor log are exact, for every table of    *)
(* processes (cyclic ones included: then the walk may not end, but it      *)
(* never decides wrongly), every set of events and all options.  Where no  *)
(* process is its own ancestor the walk never comes to a process twice.    *)
(***************************************************************************)
EXTENDS ProcmonLog, WellFoundedInduction, TLAPS

\* What one event adds to an item of a map.
Contribution(e, map, path) ==
    IF e.result = "SUCCESS" /\ Belongs(e) THEN Told(e, map, path) ELSE NoFlags

\* The maps lack at most what the event at hand contributes.
MapsPending ==
    pc \in {"walk", "match"} =>
        \A p \in Paths :
            /\ files[p] \cup Contribution(event, "files", p) = Expected("files", p)
            /\ keys[p] \cup Contribution(event, "keys", p) = Expected("keys", p)

\* Up to the process at hand every ancestor was visited, in vain so far, and
\* each of them is in every closed set that has the event's process.
WalkInv ==
    pc = "walk" =>
        /\ event \in Events /\ event.result = "SUCCESS" /\ settings.pid # Nothing
        /\ ~settings.children => visited = {} /\ at = Known(event.process)
        /\ event.process \in DOMAIN table => event.process \in visited \cup {at}
        /\ event.process \notin DOMAIN table => visited = {} /\ at = Nothing
        /\ \A j \in visited :
              /\ table[j].pid # settings.pid
              /\ table[j].parent \in DOMAIN table => table[j].parent \in visited \cup {at}
        /\ \A S \in SUBSET (DOMAIN table) :
              event.process \in S /\ ClosedUp(S) => at = Nothing \/ at \in S

MatchInv ==
    pc = "match" => event \in Events /\ event.result = "SUCCESS" /\ Belongs(event)

\* Before the first event nothing is reported.
LoadInv ==
    pc = "load" => seen = {} /\ \A p \in Paths : files[p] = NoFlags /\ keys[p] = NoFlags

IInv == TypeOK /\ MapsExact /\ MapsPending /\ WalkInv /\ MatchInv /\ LoadInv

-----------------------------------------------------------------------------
(* Operators.                                                              *)

\* A match is of a path, one of the two maps, and tracked flags, save for the
\* early return that files a rename; keys are matched only if asked for.
LEMMA MatchTyped ==
    ASSUME settings \in Settings, NEW e \in Events
    PROVE  /\ EventMatch(e).map \in {"files", "keys"}
           /\ EventMatch(e).path \in Paths
           /\ EventMatch(e).meta \subseteq Flags
           /\ EventMatch(e).map = "keys"
                => settings.registry /\ EventMatch(e).meta \subseteq settings.flags
<1>1. settings.flags \subseteq Flags /\ e.path \in Paths /\ e.fileName \in Paths \cup {Nothing}
  BY ConstantsAssumption
<1>2. CASE settings.registry /\ e.operation \in RegistryOps
  <2>1. EventMatch(e) = [map |-> "keys", path |-> e.path,
                         meta |-> RegistryFlags(e) \cap settings.flags]
    BY <1>2 DEF EventMatch, Match
  <2> QED
    BY <1>1, <1>2, <2>1
<1>3. CASE ~(settings.registry /\ e.operation \in RegistryOps)
  <2>1. EventMatch(e) = FileMatch(e)
    BY <1>3 DEF EventMatch
  <2>2. \/ FileMatch(e) = [map |-> "files", path |-> e.path,
                           meta |-> FileFlags(FileOperation(e.operation, e.type), e)
                                       \cap settings.flags]
        \/ e.fileName # Nothing
           /\ FileMatch(e) = [map |-> "files", path |-> e.fileName,
                              meta |-> IF "renamed" \in settings.flags THEN {"modified"}
                                       ELSE NoFlags]
    BY DEF FileMatch, Match
  <2> QED
    BY <1>1, <2>1, <2>2 DEF Flags, NoFlags
<1> QED
  BY <1>2, <1>3

-----------------------------------------------------------------------------
(* What the code files of an event is what the reference tells of it.      *)

\* The names and requests of the row of SetInformationFile.
SetNames == {"SetBasicInformationFile", "SetDispositionInformationFile",
             "SetEndOfFileInformationFile", "SetLinkInformationFile",
             "SetRenameInformationFile", "SetDispositionInformationEx",
             "SetRenameInformationEx", "SetRenameInformationExBypassAccessCheck"}

SetRequests == {"IRP_MJ_SET_INFORMATION", "FASTIO_SET_INFORMATION"}

\* The names of an operation that one row of the table takes for one.
Synonyms ==
    << {"FASTIO_MDL_WRITE_COMPLETE"}, {"WriteFile", "FASTIO_PREPARE_MDL_WRITE"},
       {"CreateFile", "IRP_MJ_CREATE"}, {"CreatePipe", "IRP_MJ_CREATE_NAMED_PIPE"},
       {"ReadFile", "IRP_MJ_READ"}, {"WriteFile", "IRP_MJ_WRITE"},
       {"SetInformationFile", "IRP_MJ_SET_INFORMATION"},
       {"SetEAFile", "IRP_MJ_SET_EA"}, {"CreateMailSlot", "IRP_MJ_CREATE_MAILSLOT"} >>

\* What each row of the table makes of a name.
LEMMA RowsAre ==
    ASSUME NEW operation, NEW type
    PROVE  /\ DOMAIN FileSystemOps = 1 .. 9
           /\ \A n \in 1 .. 9 : n # 7 =>
                 RowName(FileSystemOps[n], operation, type)
                    = IF operation \in Synonyms[n] THEN FileSystemOps[n].to ELSE Unrecognised
           /\ RowName(FileSystemOps[7], operation, type)
                 = IF operation \in SetNames THEN operation
                   ELSE IF operation \in SetRequests /\ type \in SetNames THEN type
                   ELSE IF operation \in Synonyms[7] THEN "SetInformationFile" ELSE Unrecognised
<1>1. DOMAIN FileSystemOps = 1 .. 9
  BY DEF FileSystemOps
<1>2. ASSUME NEW n \in 1 .. 9, n # 7
      PROVE RowName(FileSystemOps[n], operation, type)
                    = IF operation \in Synonyms[n] THEN FileSystemOps[n].to ELSE Unrecognised
  BY <1>2, SMTT(30) DEF FileSystemOps, Row, RowName, Synonyms
<1>3. RowName(FileSystemOps[7], operation, type)
                 = IF operation \in SetNames THEN operation
                   ELSE IF operation \in SetRequests /\ type \in SetNames THEN type
                   ELSE IF operation \in Synonyms[7] THEN "SetInformationFile" ELSE Unrecognised
  BY SMTT(30) DEF FileSystemOps, RowName, Synonyms, SetNames, SetRequests
<1> QED
  BY <1>1, <1>2, <1>3

\* Rows that know an operation agree on it, so that any of them will do.
LEMMA FirstRow ==
    ASSUME NEW operation, NEW type, NEW n \in 1 .. 9,
           RowName(FileSystemOps[n], operation, type) # Unrecognised
    PROVE  FileOperation(operation, type) = RowName(FileSystemOps[n], operation, type)
<1> DEFINE name(i) == RowName(FileSystemOps[i], operation, type)
           knows == {i \in DOMAIN FileSystemOps : name(i) # Unrecognised}
<1>1. ASSUME NEW i \in 1 .. 9, name(i) # Unrecognised PROVE name(i) = name(n)
  <2>1. \A k \in 1 .. 9 : k # 7 /\ name(k) # Unrecognised
                            => operation \in Synonyms[k] /\ name(k) = FileSystemOps[k].to
    BY RowsAre
  <2>2. name(7) # Unrecognised
           => operation \in SetNames \cup SetRequests \cup {"SetInformationFile"}
    BY RowsAre DEF SetNames, SetRequests, Synonyms
  <2>0. name(n) # Unrecognised
    OBVIOUS
  <2> HIDE DEF name
  <2>3. \A k \in 1 .. 9 : k # 7 => Synonyms[k] \cap (SetNames \cup SetRequests \cup {"SetInformationFile"}) = {}
    BY DEF Synonyms, SetNames, SetRequests
  <2>4. \A k, l \in 1 .. 9 : k # 7 /\ l # 7 /\ operation \in Synonyms[k] /\ operation \in Synonyms[l]
                               => FileSystemOps[k].to = FileSystemOps[l].to
    BY SMTT(30) DEF Synonyms, FileSystemOps, Row
  <2> QED
    <3>1. CASE i = 7 \/ n = 7
      BY <1>1, <2>0, <2>1, <2>2, <2>3, <3>1
    <3>2. CASE i # 7 /\ n # 7
      BY <1>1, <2>0, <2>1, <2>4, <3>2
    <3> QED
      BY <3>1, <3>2
<1>2. knows \subseteq Nat /\ n \in knows /\ \A i \in knows : name(i) = name(n)
  BY <1>1, RowsAre
<1> HIDE DEF name
<1>3. \E i \in knows : \A j \in knows : i <= j
  <2>1. PICK i \in knows : \A j \in knows : <<j, i>> \notin OpToRel(<, Nat)
    BY <1>2, NatLessThanWellFounded, WFMin
  <2> QED
    BY <1>2, <2>1 DEF OpToRel
<1>4. FileOperation(operation, type) = name(CHOOSE i \in knows : \A j \in knows : i <= j)
  BY <1>2 DEF FileOperation, name
<1> QED
  BY <1>2, <1>3, <1>4 DEF name

\* What no row knows is not recognised.
LEMMA NoRow ==
    ASSUME NEW operation, NEW type,
           \A n \in 1 .. 9 : RowName(FileSystemOps[n], operation, type) = Unrecognised
    PROVE  FileOperation(operation, type) = Unrecognised
  BY RowsAre DEF FileOperation

\* What the name of an operation makes of a file is what its spellings say.
LEMMA FilesTold ==
    ASSUME NEW e
    PROVE  LET operation == FileOperation(e.operation, e.type)
           IN  /\ operation \in TargetedRenames <=> Renames(e)
               /\ FileFlags(operation, e) = Filed(e)
<1> DEFINE o == e.operation
           t == e.type
           operation == FileOperation(o, t)
           good == /\ operation \in TargetedRenames <=> Renames(e)
                   /\ FileFlags(operation, e) = Filed(e)
<1>1. ASSUME NEW n \in 1 .. 9, n # 7, o \in Synonyms[n] PROVE operation = FileSystemOps[n].to
  <2>1. FileSystemOps[n].to # Unrecognised
    BY <1>1 DEF FileSystemOps, Row, Unrecognised
  <2> QED
    BY <1>1, <2>1, RowsAre, FirstRow
<1>2. /\ o \in SetNames => operation = o
      /\ o \in SetRequests /\ t \in SetNames => operation = t
  BY RowsAre, FirstRow DEF SetNames, SetRequests, Unrecognised
<1>3. o \in {"SetInformationFile", "IRP_MJ_SET_INFORMATION"} /\ ~(o \in SetRequests /\ t \in SetNames)
         => operation = "SetInformationFile"
  BY RowsAre, FirstRow DEF SetNames, SetRequests, Unrecognised, Synonyms
<1>4. (\A n \in 1 .. 9 : o \notin Synonyms[n]) /\ o \notin SetNames /\ ~(o \in SetRequests /\ t \in SetNames)
         => operation = Unrecognised
  BY RowsAre, NoRow
<1> HIDE DEF operation
<1>5. ASSUME o \in {"FASTIO_MDL_WRITE_COMPLETE", "WriteFile", "FASTIO_PREPARE_MDL_WRITE", "IRP_MJ_WRITE",
                    "SetEAFile", "IRP_MJ_SET_EA"} PROVE good
  <2>1. operation \in {"FASTIO_MDL_WRITE_COMPLETE", "WriteFile", "SetEAFile"}
    BY <1>1, <1>5 DEF Synonyms, FileSystemOps, Row
  <2> QED
    BY <1>5, <2>1 DEF FileFlags, TargetedRenames, Flags, NoFlags, Filed, Creates, Replaces, Writes,
       Disposes, RenamesOld, Renames, Opens, Says, SaysSet
<1>6. ASSUME o \in {"CreateFile", "IRP_MJ_CREATE"} PROVE good
  <2>1. operation = "CreateFile"
    BY <1>1, <1>6 DEF Synonyms, FileSystemOps, Row
  <2> QED
    BY <1>6, <2>1 DEF FileFlags, TargetedRenames, Flags, NoFlags, Filed, Creates, Replaces, Writes,
       Disposes, RenamesOld, Renames, Opens, Says, SaysSet
<1>7. ASSUME o \in {"CreatePipe", "IRP_MJ_CREATE_NAMED_PIPE", "CreateMailSlot", "IRP_MJ_CREATE_MAILSLOT"} PROVE good
  <2>1. operation \in {"CreatePipe", "CreateMailSlot"}
    BY <1>1, <1>7 DEF Synonyms, FileSystemOps, Row
  <2> QED
    BY <1>7, <2>1 DEF FileFlags, TargetedRenames, Flags, NoFlags, Filed, Creates, Replaces, Writes,
       Disposes, RenamesOld, Renames, Opens, Says, SaysSet
<1>8. ASSUME o \in {"ReadFile", "IRP_MJ_READ"} PROVE good
  <2>1. operation = "ReadFile"
    BY <1>1, <1>8 DEF Synonyms, FileSystemOps, Row
  <2> QED
    BY <1>8, <2>1 DEF FileFlags, TargetedRenames, Flags, NoFlags, Filed, Creates, Replaces, Writes,
       Disposes, RenamesOld, Renames, Opens, Says, SaysSet
<1>9. ASSUME o \in SetNames PROVE good
  BY <1>2, <1>9 DEF SetNames, FileFlags, TargetedRenames, Flags, NoFlags, Filed, Creates, Replaces, Writes,
     Disposes, RenamesOld, Renames, Opens, Says, SaysSet
<1>10. ASSUME o \in SetRequests, t \in SetNames PROVE good
  BY <1>2, <1>10 DEF SetNames, SetRequests, FileFlags, TargetedRenames, Flags, NoFlags, Filed, Creates,
     Replaces, Writes, Disposes, RenamesOld, Renames, Opens, Says, SaysSet
<1>11. ASSUME o \in SetRequests \cup {"SetInformationFile"}, ~(o \in SetRequests /\ t \in SetNames) PROVE good
  <2>1. operation \in {"SetInformationFile", Unrecognised}
    BY <1>3, <1>4, <1>11 DEF Synonyms, SetNames, SetRequests
  <2> QED
    BY <1>11, <2>1 DEF SetNames, SetRequests, FileFlags, TargetedRenames, Flags, NoFlags, Filed, Creates,
       Replaces, Writes, Disposes, RenamesOld, Renames, Opens, Says, SaysSet, Unrecognised
<1>12. ASSUME \A n \in 1 .. 9 : o \notin Synonyms[n], o \notin SetNames \cup SetRequests PROVE good
  <2>1. operation = Unrecognised
    BY <1>4, <1>12
  <2>2. o \notin {"FASTIO_MDL_WRITE_COMPLETE", "WriteFile", "FASTIO_PREPARE_MDL_WRITE", "IRP_MJ_WRITE",
                  "SetEAFile", "IRP_MJ_SET_EA", "CreateFile", "IRP_MJ_CREATE", "CreatePipe",
                  "IRP_MJ_CREATE_NAMED_PIPE", "CreateMailSlot", "IRP_MJ_CREATE_MAILSLOT"}
    BY <1>12 DEF Synonyms
  <2> QED
    BY <1>12, <2>1, <2>2 DEF SetNames, SetRequests, FileFlags, TargetedRenames, Flags, NoFlags, Filed, Creates,
       Replaces, Writes, Disposes, RenamesOld, Renames, Opens, Says, SaysSet, Unrecognised
<1>13. \/ o \in {"FASTIO_MDL_WRITE_COMPLETE", "WriteFile", "FASTIO_PREPARE_MDL_WRITE", "IRP_MJ_WRITE",
                  "SetEAFile", "IRP_MJ_SET_EA", "CreateFile", "IRP_MJ_CREATE", "CreatePipe",
                  "IRP_MJ_CREATE_NAMED_PIPE", "CreateMailSlot", "IRP_MJ_CREATE_MAILSLOT", "ReadFile", "IRP_MJ_READ"}
       \/ o \in SetNames \cup SetRequests \cup {"SetInformationFile"}
       \/ \A n \in 1 .. 9 : o \notin Synonyms[n]
  BY DEF Synonyms, SetRequests
<1>14. good
  BY <1>5, <1>6, <1>7, <1>8, <1>9, <1>10, <1>11, <1>12, <1>13
<1> QED
  BY <1>14 DEF operation

\* What the code makes of an event is what the event tells: one item of one map.
LEMMA MatchTells ==
    ASSUME settings \in Settings, NEW e \in Events, NEW map \in {"files", "keys"}, NEW p
    PROVE  Told(e, map, p) = IF EventMatch(e).map = map /\ EventMatch(e).path = p
                             THEN EventMatch(e).meta ELSE NoFlags
<1> DEFINE operation == FileOperation(e.operation, e.type)
<1>1. settings.flags \subseteq Flags
  BY ConstantsAssumption
<1>2. /\ operation \in TargetedRenames <=> Renames(e)
      /\ FileFlags(operation, e) = Filed(e)
  BY FilesTold
<1>3. CASE settings.registry /\ e.operation \in RegistryOps
  <2>1. EventMatch(e) = [map |-> "keys", path |-> e.path,
                         meta |-> RegistryFlags(e) \cap settings.flags]
    BY <1>3 DEF EventMatch, Match
  <2>2. RegistryFlags(e) = Keyed(e)
    BY <1>3 DEF RegistryOps, RegistryFlags, Flags, NoFlags, Keyed, SetsValue, Says
  <2>3. ~Targeted(e) /\ Filed(e) = {}
    BY <1>3 DEF RegistryOps, Targeted, Filed, Creates, Replaces, Writes, Disposes, RenamesOld,
       Renames, Opens, Says, SaysSet, Flags
  <2> QED
    BY <1>1, <1>3, <2>1, <2>2, <2>3 DEF Told, NoFlags
<1>4. CASE ~(settings.registry /\ e.operation \in RegistryOps)
  <2>1. EventMatch(e) = FileMatch(e)
    BY <1>4 DEF EventMatch
  <2>2. settings.registry => Keyed(e) = {}
    BY <1>4 DEF RegistryOps, Keyed, SetsValue, Says, Flags
  <2>3. FileMatch(e) = IF Targeted(e)
                       THEN [map |-> "files", path |-> e.fileName,
                             meta |-> IF "renamed" \in settings.flags THEN {"modified"} ELSE NoFlags]
                       ELSE [map |-> "files", path |-> e.path,
                             meta |-> FileFlags(operation, e) \cap settings.flags]
    BY <1>2 DEF FileMatch, Match, Targeted
  <2> HIDE DEF operation
  <2>4. CASE map = "keys"
    BY <1>1, <2>1, <2>2, <2>3, <2>4 DEF Told, NoFlags
  <2>5. CASE map = "files"
    BY <1>1, <1>2, <2>1, <2>3, <2>5 DEF Told, NoFlags
  <2> QED
    BY <2>4, <2>5
<1> QED
  BY <1>3, <1>4

-----------------------------------------------------------------------------
(* What is expected.                                                       *)

\* What an event tells, and whether it counts, are fixed in a log.
LEMMA ToldStays ==
    ASSUME UNCHANGED <<settings, table>>
    PROVE  /\ \A e, map, p : Told(e, map, p)' = Told(e, map, p)
           /\ \A e : Belongs(e)' = Belongs(e)
  BY DEF Told, Targeted, Belongs, Descends, ClosedUp

\* An event that was taken adds its contribution to what is expected.
LEMMA ExpectedGrows ==
    ASSUME NEW e, NEW map, NEW p, seen' = seen \cup {e}, UNCHANGED <<settings, table>>
    PROVE  Expected(map, p)' = Expected(map, p) \cup Contribution(e, map, p)
<1> DEFINE counts(x) == x.result = "SUCCESS" /\ Belongs(x)
<1>1. Expected(map, p) = UNION {Told(x, map, p) : x \in {y \in seen : counts(y)}}
  BY DEF Expected, Counted
<1>2. Expected(map, p)' = UNION {Told(x, map, p) : x \in {y \in seen \cup {e} : counts(y)}}
  BY ToldStays DEF Expected, Counted
<1>3. Contribution(e, map, p) = IF counts(e) THEN Told(e, map, p) ELSE {}
  BY DEF Contribution, NoFlags
<1> HIDE DEF counts
<1> QED
  BY <1>1, <1>2, <1>3

\* What is expected depends on the settings, the table and the events seen.
LEMMA ExpectedStays ==
    ASSUME UNCHANGED <<settings, table, seen>>
    PROVE  \A map, p : Expected(map, p)' = Expected(map, p)
  BY ToldStays DEF Expected, Counted

LEMMA ContributionStays ==
    ASSUME UNCHANGED <<settings, table>>
    PROVE  \A e, map, p : Contribution(e, map, p)' = Contribution(e, map, p)
  BY ToldStays DEF Contribution

-----------------------------------------------------------------------------
(* What the end of a walk means.                                           *)

\* Found: the process at hand is an ancestor in every closed set.
LEMMA WalkFinds ==
    ASSUME IInv, pc = "walk", at # Nothing, table[at].pid = settings.pid
    PROVE  Belongs(event)
<1>1. at \in DOMAIN table
  BY DEF IInv, TypeOK
<1>2. event.process \in DOMAIN table
  BY <1>1 DEF IInv, WalkInv
<1>3. CASE settings.children
  BY <1>1, <1>2, <1>3 DEF IInv, WalkInv, Belongs, Descends
<1>4. CASE ~settings.children
  BY <1>2, <1>4 DEF IInv, WalkInv, Belongs, Known
<1> QED
  BY <1>3, <1>4

\* Not found: the processes visited are a closed set without the process id.
LEMMA WalkMisses ==
    ASSUME IInv, pc = "walk",
           \/ at = Nothing
           \/ /\ at # Nothing /\ table[at].pid # settings.pid
              /\ ~settings.children \/ table[at].parent = at
    PROVE  ~Belongs(event)
<1>1. CASE event.process \notin DOMAIN table
  BY <1>1 DEF IInv, WalkInv, Belongs
<1>2. CASE event.process \in DOMAIN table /\ ~settings.children
  <2>1. at = event.process /\ settings.pid # Nothing
    BY <1>2 DEF IInv, WalkInv, Known
  <2>2. Nothing \notin DOMAIN table
    BY ConstantsAssumption DEF IInv, TypeOK
  <2> QED
    BY <1>2, <2>1, <2>2 DEF Belongs
<1>3. CASE event.process \in DOMAIN table /\ settings.children
  <2>1. CASE at = Nothing
    <3>1. Nothing \notin DOMAIN table
      BY ConstantsAssumption DEF IInv, TypeOK
    <3>2. event.process \in visited /\ visited \in SUBSET (DOMAIN table)
      BY <1>3, <2>1, <3>1 DEF IInv, TypeOK, WalkInv
    <3>3. ClosedUp(visited) /\ \A j \in visited : table[j].pid # settings.pid
      BY <2>1, <3>1 DEF IInv, WalkInv, ClosedUp
    <3> QED
      BY <1>3, <3>2, <3>3 DEF Belongs, Descends, IInv, WalkInv
  <2>2. CASE at # Nothing
    <3>1. table[at].pid # settings.pid /\ table[at].parent = at
      BY <1>3, <2>2
    <3>2. event.process \in visited \cup {at} /\ visited \cup {at} \in SUBSET (DOMAIN table)
      BY <1>3, <2>2 DEF IInv, TypeOK, WalkInv
    <3>3. /\ ClosedUp(visited \cup {at})
          /\ \A j \in visited \cup {at} : table[j].pid # settings.pid
      BY <3>1 DEF IInv, WalkInv, ClosedUp
    <3> QED
      BY <1>3, <3>2, <3>3 DEF Belongs, Descends, IInv, WalkInv
  <2> QED
    BY <2>1, <2>2
<1> QED
  BY <1>1, <1>2, <1>3

-----------------------------------------------------------------------------
(* The steps.                                                              *)

LEMMA InitEstablishes == Init => IInv
<1> SUFFICES ASSUME Init PROVE IInv
  OBVIOUS
<1>1. TypeOK
  BY DEF Init, TypeOK, NoFlags
<1>2. MapsExact /\ MapsPending /\ WalkInv /\ MatchInv /\ LoadInv
  BY DEF Init, MapsExact, MapsPending, WalkInv, MatchInv, LoadInv
<1> QED
  BY <1>1, <1>2 DEF IInv

LEMMA LoadPreserves ==
    ASSUME IInv, LoadProcesses
    PROVE  IInv'
<1>1. TypeOK' /\ MapsPending' /\ WalkInv' /\ MatchInv' /\ LoadInv'
  BY DEF IInv, TypeOK, MapsPending, WalkInv, MatchInv, LoadInv, LoadProcesses
<1>2. MapsExact'
  <2>1. \A map, p : Expected(map, p) = {}
    BY DEF IInv, LoadInv, LoadProcesses, Expected, Counted
  <2> QED
    BY <2>1, ExpectedStays DEF IInv, LoadInv, LoadProcesses, MapsExact, NoFlags
<1> QED
  BY <1>1, <1>2 DEF IInv

LEMMA NextEventPreserves ==
    ASSUME IInv, NEW e \in Events, NextEvent(e)
    PROVE  IInv'
<1>1. /\ pc = "next" /\ pc' \in {"next", "match", "walk"}
      /\ event' = e /\ seen' = seen \cup {e} /\ visited' = {} /\ at' = Known(e.process)
      /\ UNCHANGED <<settings, table, files, keys>>
  BY DEF NextEvent
<1>2. \A p \in Paths : files[p] = Expected("files", p) /\ keys[p] = Expected("keys", p)
  BY <1>1 DEF IInv, MapsExact
<1>3. \A map, p : Expected(map, p)' = Expected(map, p) \cup Contribution(e, map, p)
  BY <1>1, ExpectedGrows
<1>4. TypeOK'
  BY <1>1 DEF IInv, TypeOK, Known
<1>5. MapsExact'
  <2>1. CASE e.result # "SUCCESS"
    <3>1. \A map, p : Contribution(e, map, p) = {}
      BY <2>1 DEF Contribution, NoFlags
    <3> QED
      BY <1>1, <1>2, <1>3, <3>1 DEF MapsExact
  <2>2. CASE e.result = "SUCCESS"
    BY <2>2, <1>1 DEF NextEvent, MapsExact
  <2> QED
    BY <2>1, <2>2
<1>6. MapsPending'
  BY <1>1, <1>2, <1>3, ContributionStays DEF MapsPending
<1>7. WalkInv'
  <2>1. SUFFICES ASSUME pc' = "walk" PROVE WalkInv'
    BY DEF WalkInv
  <2>2. e.result = "SUCCESS" /\ settings.pid # Nothing
    BY <2>1 DEF NextEvent
  <2> QED
    BY <1>1, <2>2 DEF WalkInv, Known, ClosedUp
<1>8. MatchInv'
  <2>1. SUFFICES ASSUME pc' = "match" PROVE MatchInv'
    BY DEF MatchInv
  <2>2. e.result = "SUCCESS" /\ settings.pid = Nothing
    BY <2>1 DEF NextEvent
  <2> QED
    BY <1>1, <2>2 DEF MatchInv, Belongs
<1>9. LoadInv'
  BY <1>1 DEF LoadInv
<1> QED
  BY <1>4, <1>5, <1>6, <1>7, <1>8, <1>9 DEF IInv

LEMMA WalkPreserves ==
    ASSUME IInv, WalkParents
    PROVE  IInv'
<1>1. /\ pc = "walk" /\ pc' \in {"walk", "next", "match"}
      /\ UNCHANGED <<settings, table, event, files, keys, seen>>
  BY DEF WalkParents
<1>2. \A map, p : Expected(map, p)' = Expected(map, p)
  BY <1>1, ExpectedStays
<1>3. \A e, map, p : Contribution(e, map, p)' = Contribution(e, map, p)
  BY <1>1, ContributionStays
<1>4. TypeOK'
  BY <1>1 DEF IInv, TypeOK, WalkParents, Known
<1>5. MapsPending' /\ LoadInv'
  BY <1>1, <1>2, <1>3 DEF IInv, MapsPending, LoadInv
<1>6. CASE \/ at = Nothing
           \/ /\ at # Nothing /\ table[at].pid # settings.pid
              /\ ~settings.children \/ table[at].parent = at
  <2>1. pc' = "next"
    BY <1>6 DEF WalkParents
  <2>2. ~Belongs(event)
    BY <1>1, <1>6, WalkMisses
  <2>3. MapsExact'
    <3>1. \A map, p : Contribution(event, map, p) = {}
      BY <2>2 DEF Contribution, NoFlags
    <3> QED
      BY <1>1, <1>2, <3>1 DEF IInv, MapsPending, MapsExact
  <2>4. WalkInv' /\ MatchInv'
    BY <2>1 DEF WalkInv, MatchInv
  <2> QED
    BY <1>4, <1>5, <2>3, <2>4 DEF IInv
<1>7. CASE at # Nothing /\ table[at].pid = settings.pid
  <2>1. pc' = "match"
    BY <1>7 DEF WalkParents
  <2>2. Belongs(event)'
    <3>1. Belongs(event)
      BY <1>1, <1>7, WalkFinds
    <3> QED
      BY <1>1, <3>1 DEF Belongs, Descends, ClosedUp
  <2>3. MatchInv' /\ MapsExact' /\ WalkInv'
    BY <1>1, <2>1, <2>2 DEF IInv, WalkInv, MatchInv, MapsExact
  <2> QED
    BY <1>4, <1>5, <2>3 DEF IInv
<1>8. CASE /\ at # Nothing /\ table[at].pid # settings.pid
           /\ settings.children /\ table[at].parent # at
  <2>1. pc' = "walk" /\ visited' = visited \cup {at} /\ at' = Known(table[at].parent)
    BY <1>1, <1>8 DEF WalkParents
  <2>2. at \in DOMAIN table /\ Nothing \notin DOMAIN table
    BY <1>8, ConstantsAssumption DEF IInv, TypeOK
  <2>3. WalkInv'
    <3>1. event.process \in DOMAIN table
      BY <1>1, <2>2, <1>8 DEF IInv, WalkInv
    <3>2. \A j \in visited \cup {at} :
             /\ table[j].pid # settings.pid
             /\ table[j].parent \in DOMAIN table
                   => table[j].parent \in visited \cup {at} \cup {Known(table[at].parent)}
      BY <1>1, <1>8 DEF IInv, WalkInv, Known
    <3>3. \A S \in SUBSET (DOMAIN table) :
             event.process \in S /\ ClosedUp(S)
                => \/ Known(table[at].parent) = Nothing
                   \/ Known(table[at].parent) \in S
      BY <1>1, <1>8 DEF IInv, WalkInv, Known, ClosedUp
    <3>4. event.process \in visited \cup {at}
      BY <1>1, <3>1 DEF IInv, WalkInv
    <3> QED
      BY <1>1, <1>8, <2>1, <3>1, <3>2, <3>3, <3>4 DEF IInv, WalkInv, ClosedUp
  <2>4. MatchInv' /\ MapsExact'
    BY <2>1 DEF MatchInv, MapsExact
  <2> QED
    BY <1>4, <1>5, <2>3, <2>4 DEF IInv
<1> QED
  BY <1>6, <1>7, <1>8

LEMMA MatchPreserves ==
    ASSUME IInv, MatchEvent
    PROVE  IInv'
<1> DEFINE m == EventMatch(event)
<1>1. /\ pc = "match" /\ pc' = "next"
      /\ UNCHANGED <<settings, table, event, at, visited, seen>>
      /\ IF m.map = "keys"
         THEN keys' = MergeEntry(keys, m.path, m.meta) /\ files' = files
         ELSE files' = MergeEntry(files, m.path, m.meta) /\ keys' = keys
  BY DEF MatchEvent
<1>2. event \in Events /\ event.result = "SUCCESS" /\ Belongs(event)
  BY <1>1 DEF IInv, MatchInv
<1>3. /\ m.map \in {"files", "keys"} /\ m.path \in Paths /\ m.meta \subseteq Flags
      /\ m.map = "keys" => settings.registry /\ m.meta \subseteq settings.flags
  BY <1>2, MatchTyped DEF IInv, TypeOK
<1>4. \A p \in Paths :
         /\ files'[p] = files[p] \cup Contribution(event, "files", p)
         /\ keys'[p] = keys[p] \cup Contribution(event, "keys", p)
  <2> SUFFICES ASSUME NEW p \in Paths
               PROVE  /\ files'[p] = files[p] \cup Contribution(event, "files", p)
                      /\ keys'[p] = keys[p] \cup Contribution(event, "keys", p)
    OBVIOUS
  <2>1. \A map \in {"files", "keys"} : Contribution(event, map, p)
                    = IF m.map = map /\ m.path = p THEN m.meta ELSE {}
    BY <1>2, <1>3, MatchTells DEF Contribution, NoFlags, IInv, TypeOK
  <2>2. files \in [Paths -> SUBSET Flags] /\ DOMAIN keys = Paths
    BY DEF IInv, TypeOK
  <2> HIDE DEF m
  <2>3. CASE m.map = "keys"
    BY <1>1, <1>3, <2>1, <2>2, <2>3 DEF MergeEntry, Merge
  <2>4. CASE m.map = "files"
    BY <1>1, <1>3, <2>1, <2>2, <2>4 DEF MergeEntry, Merge
  <2> QED
    BY <1>3, <2>3, <2>4
<1>5. TypeOK'
  <2>1. files' \in [Paths -> SUBSET Flags]
    <3> HIDE DEF m
    <3> QED
      BY <1>1, <1>3 DEF IInv, TypeOK, MergeEntry, Merge
  <2>2. keys' \in [Paths -> SUBSET (IF settings.registry THEN settings.flags ELSE NoFlags)]
    <3>1. CASE m.map = "keys"
      <4> HIDE DEF m
      <4> QED
        BY <1>1, <1>3, <3>1 DEF IInv, TypeOK, MergeEntry, Merge
    <3>2. CASE m.map # "keys"
      BY <1>1, <3>2 DEF IInv, TypeOK
    <3> QED
      BY <3>1, <3>2
  <2> QED
    BY <1>1, <2>1, <2>2 DEF IInv, TypeOK
<1>6. MapsExact'
  <2>1. \A map, p : Expected(map, p)' = Expected(map, p)
    BY <1>1, ExpectedStays
  <2> QED
    BY <1>1, <1>4, <2>1 DEF IInv, MapsPending, MapsExact
<1>7. MapsPending' /\ WalkInv' /\ MatchInv' /\ LoadInv'
  BY <1>1 DEF MapsPending, WalkInv, MatchInv, LoadInv
<1> QED
  BY <1>5, <1>6, <1>7 DEF IInv

LEMMA FinishPreserves ==
    ASSUME IInv, Finish
    PROVE  IInv'
<1>1. TypeOK' /\ MapsPending' /\ WalkInv' /\ MatchInv' /\ LoadInv'
  BY DEF IInv, TypeOK, MapsPending, WalkInv, MatchInv, LoadInv, Finish
<1>2. MapsExact'
  BY ExpectedStays DEF IInv, MapsExact, Finish
<1> QED
  BY <1>1, <1>2 DEF IInv

LEMMA StutterPreserves ==
    ASSUME IInv, UNCHANGED vars
    PROVE  IInv'
<1>1. TypeOK' /\ LoadInv'
  BY DEF IInv, TypeOK, LoadInv, vars
<1>2. MapsExact' /\ MapsPending'
  BY ExpectedStays, ContributionStays DEF IInv, MapsExact, MapsPending, vars
<1>3. WalkInv' /\ MatchInv'
  BY DEF IInv, WalkInv, MatchInv, Known, ClosedUp, Belongs, Descends, vars
<1> QED
  BY <1>1, <1>2, <1>3 DEF IInv

-----------------------------------------------------------------------------
\* The inductive invariant holds throughout.
THEOREM InductiveInvariant == Spec => []IInv
<1>1. Init => IInv
  BY InitEstablishes
<1>2. IInv /\ [Next]_vars => IInv'
  BY LoadPreserves, NextEventPreserves, WalkPreserves, MatchPreserves, FinishPreserves,
     StutterPreserves DEF Next
<1> QED
  BY <1>1, <1>2, PTL DEF Spec

\* The types, and with them that registry keys only ever get tracked flags.
THEOREM TypeCorrect == Spec => []TypeOK
<1>1. IInv => TypeOK
  BY DEF IInv
<1> QED
  BY <1>1, InductiveInvariant, PTL

\* The maps are what the successful events of the tracked process and of its
\* descendants (procmon.rs:209-238 and 581-603) say, no more and no less.
THEOREM MapsAreExact == Spec => []MapsExact
<1>1. IInv => MapsExact
  BY DEF IInv
<1> QED
  BY <1>1, InductiveInvariant, PTL

-----------------------------------------------------------------------------
(* The walk up the parents gets on.                                        *)

\* A rank of the processes of every table that grows from child to parent: there
\* is one when no process is its own ancestor, but for the roots.
IsRank(rank) ==
    \A t \in Tables : \A i \in DOMAIN t :
        /\ rank[t][i] \in Nat
        /\ t[i].parent \in DOMAIN t \ {i} => rank[t][i] < rank[t][t[i].parent]

\* In such tables the walk up the parents comes to no process twice, so that it
\* takes no more turns than there are processes (procmon.rs:581-602).
THEOREM WalkClimbs ==
    ASSUME NEW rank, IsRank(rank)
    PROVE  Spec => [](pc = "walk" => at \notin visited)
<1> DEFINE Climbing == pc = "walk" /\ at # Nothing => \A i \in visited : rank[table][i] < rank[table][at]
<1>1. Init => Climbing
  BY DEF Init
<1>2. IInv /\ Climbing /\ [Next]_vars => Climbing'
  <2> SUFFICES ASSUME IInv, Climbing, [Next]_vars, pc' = "walk", at' # Nothing, NEW i \in visited'
               PROVE  rank[table'][i] < rank[table'][at']
    OBVIOUS
  <2>1. CASE WalkParents
    <3>1. /\ at # Nothing /\ at \in DOMAIN table /\ table \in Tables /\ visited \subseteq DOMAIN table
          /\ visited' = visited \cup {at} /\ table[at].parent # at
          /\ at' = table[at].parent /\ at' \in DOMAIN table /\ table' = table
      BY <2>1 DEF WalkParents, Known, IInv, TypeOK
    <3>2. rank[table][at] < rank[table][at'] /\ rank[table][at] \in Nat /\ rank[table][at'] \in Nat
      BY <3>1 DEF IsRank
    <3>3. CASE i = at
      BY <3>1, <3>2, <3>3
    <3>4. CASE i \in visited
      <4>1. rank[table][i] < rank[table][at] /\ rank[table][i] \in Nat
        BY <2>1, <3>1, <3>4 DEF WalkParents, IsRank
      <4> QED
        BY <3>1, <3>2, <4>1
    <3> QED
      BY <3>1, <3>3, <3>4
  <2>2. ASSUME NEW e \in Events, NextEvent(e) PROVE FALSE
    BY <2>2 DEF NextEvent
  <2>3. CASE LoadProcesses \/ MatchEvent \/ Finish
    BY <2>3 DEF LoadProcesses, MatchEvent, Finish
  <2>4. CASE UNCHANGED vars
    BY <2>4 DEF vars
  <2> QED
    BY <2>1, <2>2, <2>3, <2>4 DEF Next
<1>3. IInv /\ Climbing => (pc = "walk" => at \notin visited)
  <2> SUFFICES ASSUME IInv, Climbing, pc = "walk", at \in visited PROVE FALSE
    OBVIOUS
  <2>1. at \in DOMAIN table /\ at # Nothing /\ table \in Tables
    BY ConstantsAssumption DEF IInv, TypeOK
  <2>2. rank[table][at] \in Nat /\ rank[table][at] < rank[table][at]
    BY <2>1 DEF IsRank
  <2> QED
    BY <2>2
<1> QED
  BY <1>1, <1>2, <1>3, InductiveInvariant, PTL DEF Spec
=============================================================================
