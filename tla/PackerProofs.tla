---------------------------- MODULE PackerProofs ----------------------------
(***************************************************************************)
(* The properties of Packer for every set of reports, every canonical form *)
(* of their paths, every limit and every file system.                      *)
(***************************************************************************)
EXTENDS Packer, TLAPS

-----------------------------------------------------------------------------
(* The inductive invariant.                                                *)

\* What todo and the entries may name.
NormalForms == Files \cup {Lexical(p) : p \in Reports}

\* A file that is there, and has been all the time since the first answer.
Steady(f) == size[f] # Absent /\ f \notin churned

Opened == pc \in {"measure", "copy"}

\* The values of `current`.
Currents == [path : NormalForms \cup {<<>>}, file : Files \cup {<<>>}, linked : BOOLEAN,
             len : Nat, measured : Nat, read : Nat, lens : SUBSET Nat]

Shapes ==
    /\ current \in Currents
    /\ todo \subseteq NormalForms
    /\ pc \in {"metadata", "files"} => unresolved \subseteq reported
    /\ pc \in {"open", "askMetadata", "metadata", "askFiles"} => todo = {} /\ settled = {}
    /\ pc \in {"open", "askMetadata", "metadata"} => entries = {}
    /\ \A e \in entries :
          /\ e.file \in Files /\ e.measured \in Nat /\ e.bytes \in Nat /\ e.whole \in BOOLEAN
          /\ e.lens \subseteq Nat

\* The handle: its length is that of the file for as long as the file is the
\* one it was opened on, and its path is the file's own while nothing churns.
Handle ==
    Opened =>
        /\ current.file \in Files /\ current.path \in NormalForms
        /\ IF current.linked THEN size[current.file] = current.len
                             ELSE current.file \in churned /\ current.file \notin settled
        /\ current.file \in churned \/ current.path = current.file
        /\ pc = "measure" => current.read = 0
        /\ pc = "copy" => /\ current.measured <= SizeLimit
                          /\ current.measured \in current.lens /\ current.len \in current.lens
                          /\ \A e \in entries : e.name # ZipEntryPath(current.path)

\* What holds of every entry from the moment it is closed.
Packed ==
    \A e \in entries :
        /\ e.name = ZipEntryPath(e.path)
        /\ e.file \in churned \/ e.path = e.file
        /\ \A e2 \in entries : e2 # e => e2.name # e.name

\* A path still to be packed is the file's own while nothing churns.
Canonically ==
    \A p \in todo : p \in DOMAIN Canonical /\ Steady(Canonical[p]) => p = Canonical[p]

\* With a fixed answer, what was normalized for the loop had been for the metadata.
Listed ==
    ~moving =>
        /\ pc \notin {"open", "askMetadata", "failed"} =>
              \A p \in reported : Steady(Canonical[p]) =>
                  Canonical[p] \in listed \/ (pc = "metadata" /\ p \in unresolved)
        /\ \A p \in todo : p \in DOMAIN Canonical /\ Steady(Canonical[p]) => p \in listed
        /\ Opened => current.path \in listed \/ current.file \in churned

\* Where a file is that must get into the archive.
Held(p) ==
    \/ pc = "files" /\ p \in unresolved
    \/ Canonical[p] \in todo
    \/ Opened /\ current.path = Canonical[p] /\ current.file = Canonical[p]
    \/ \E e \in entries :
          \/ e.file = Canonical[p] /\ e.whole
          \/ e.name = ZipEntryPath(Canonical[p])

Wanted(p) == Canonical[p] \in settled \ refused /\ ~IsReservedPath(Canonical[p])

Kept ==
    /\ pc = "done" => todo = {}
    /\ \A f \in settled : size[f] # Absent /\ size[f] <= SizeLimit
    /\ pc \in {"files", "loop", "measure", "copy", "done"} =>
          \A p \in reported : Wanted(p) => Held(p)

IInv ==
    /\ TypeOK
    /\ Shapes
    /\ Handle
    /\ EntriesWithinLimit
    /\ Packed
    /\ Canonically
    /\ Listed
    /\ EntriesListed
    /\ Kept

-----------------------------------------------------------------------------
(* Paths.                                                                  *)

LEMMA ReportFile ==
    ASSUME NEW p \in Reports
    PROVE  /\ p \in DOMAIN Canonical /\ WithRoot(p) = p /\ Canonical[p] \in Files
           /\ Exists(p) <=> size[Canonical[p]] # Absent
BY ConstantsAssumption DEF Files, Exists

\* Whatever path a file is opened by, the file is one of a report.
LEMMA NormalFormFile ==
    ASSUME NEW p \in NormalForms, p \in DOMAIN Canonical
    PROVE  Canonical[p] \in Files
BY ConstantsAssumption DEF NormalForms, Files

LEMMA FileOfItself ==
    ASSUME NEW f \in Files
    PROVE  f \in DOMAIN Canonical /\ Canonical[f] = f
BY ConstantsAssumption DEF Files

\* A report is normalized to a normal form, which is the file's own if the
\* file is there, and otherwise names that same file if it names any.
LEMMA Normal ==
    ASSUME NEW p \in Reports
    PROVE  /\ NormalizePath(p) \in NormalForms
           /\ size[Canonical[p]] # Absent => NormalizePath(p) = Canonical[p]
           /\ NormalizePath(p) \in DOMAIN Canonical
                 => Canonical[NormalizePath(p)] = Canonical[p]
<1>1. CASE Exists(p)
  BY <1>1, ReportFile, ConstantsAssumption DEF NormalizePath, NormalForms, Files
<1>2. CASE ~Exists(p)
  BY <1>2, ReportFile, ConstantsAssumption DEF NormalizePath, NormalForms
<1> QED
  BY <1>1, <1>2

-----------------------------------------------------------------------------
THEOREM InitInv == Init => IInv
<1> SUFFICES ASSUME Init PROVE IInv
  OBVIOUS
<1> USE DEF Init, NoFile, Absent
<1>1. TypeOK
  BY ConstantsAssumption DEF TypeOK
<1>2. Shapes
  BY DEF Shapes, Currents
<1>3. Handle /\ Packed /\ Canonically /\ Listed /\ Kept
  BY DEF Handle, Packed, Canonically, Listed, Kept, Opened
<1>4. EntriesWithinLimit /\ EntriesListed
  BY DEF EntriesWithinLimit, EntriesListed
<1> QED
  BY <1>1, <1>2, <1>3, <1>4 DEF IInv

-----------------------------------------------------------------------------
(* The file system.                                                        *)

\* A file gets another length, for its handle too, which remembers the one it had.
LEMMA ResizeInv ==
    ASSUME IInv, NEW f \in Files, size[f] # Absent, NEW n \in 0 .. MaxSize, Resize(f, n)
    PROVE  IInv'
<1> USE DEF IInv, Resize, filesystem, monitor, archive, loop, FsOther, Absent
<1>a. \/ current' = current
      \/ /\ current.linked /\ current.file = f
         /\ \E S \in {current.lens, current.lens \cup {n}} :
               /\ pc = "copy" => S = current.lens \cup {n}
               /\ current' = [current EXCEPT !.len = n, !.lens = S]
  OBVIOUS
<1>n. n \in Nat
  BY ConstantsAssumption
<1>b. current' \in Currents
  BY <1>a, <1>n DEF Shapes, Currents
<1>c. /\ current'.path = current.path /\ current'.measured = current.measured
      /\ current'.read = current.read /\ current'.file = current.file
      /\ current'.linked = current.linked /\ current.lens \subseteq current'.lens
      /\ \/ current'.len = current.len /\ current'.lens = current.lens /\ (current.file # f \/ ~current.linked)
         \/ current'.len = n /\ (pc = "copy" => n \in current'.lens)
  BY <1>a DEF Shapes, Currents
<1>d. size' \in [Files -> Absent .. MaxSize]
  BY ConstantsAssumption DEF TypeOK
<1>1. TypeOK'
  <2>1. /\ current'.len \in Nat /\ current'.measured \in Nat /\ current'.read \in Nat
        /\ current'.lens \subseteq Nat
        /\ pc' = "copy" => \E m \in current'.lens : current'.read <= m
    BY <1>b, <1>c DEF TypeOK, Currents
  <2>2. ~IsReservedPath(current.path)' \/ pc' \notin {"measure", "copy"}
    BY <1>c DEF TypeOK
  <2>3. changes' \in 0 .. MaxChanges
    BY ConstantsAssumption DEF TypeOK
  <2> QED
    BY <1>d, <2>1, <2>2, <2>3 DEF TypeOK
<1>2. Shapes'
  BY <1>b DEF Shapes
<1>3. Handle'
  BY <1>c DEF TypeOK, Shapes, Handle, Opened
<1>4. EntriesWithinLimit'
  BY ConstantsAssumption DEF TypeOK, Shapes, EntriesWithinLimit
<1>5. Packed'
  BY ConstantsAssumption DEF TypeOK, Shapes, Packed
<1>6. Canonically'
  BY ConstantsAssumption DEF TypeOK, Shapes, Canonically, Steady
<1>7. Listed'
  BY <1>c DEF TypeOK, Shapes, Listed, Steady, Opened
<1>8. EntriesListed'
  BY ConstantsAssumption DEF TypeOK, Shapes, EntriesListed, Listed, Steady, Opened
<1>9. Kept'
  BY <1>c DEF TypeOK, Shapes, Kept, Wanted, Held, Opened
<1> QED
  BY <1>1, <1>2, <1>3, <1>4, <1>5, <1>6, <1>7, <1>8, <1>9 DEF IInv

\* So do growing and truncation.
LEMMA GrowInv ==
    ASSUME IInv, NEW f \in Files, Grow(f) \/ Truncate(f)
    PROVE  IInv'
<1>1. size[f] \in Absent .. MaxSize /\ size[f] # Absent /\ MaxSize \in Nat
  BY ConstantsAssumption DEF IInv, TypeOK, Grow, Truncate
<1>2. PICK n \in 0 .. MaxSize : Resize(f, n)
  BY <1>1 DEF Grow, Truncate, Absent
<1> QED
  BY <1>1, <1>2, ResizeInv

\* A file vanishes, and its handle is cut off from it.
LEMMA VanishInv ==
    ASSUME IInv, NEW f \in Files, Vanish(f)
    PROVE  IInv'
<1> USE DEF IInv, Vanish, filesystem, monitor, archive, loop, FsOther, Absent
<1>a. current' \in Currents
  BY DEF Shapes, Currents
<1>1. TypeOK'
  BY ConstantsAssumption DEF TypeOK, Shapes
<1>2. Shapes'
  BY <1>a DEF Shapes
<1>3. Handle'
  BY ConstantsAssumption DEF TypeOK, Shapes, Handle, Opened
<1>4. EntriesWithinLimit'
  BY ConstantsAssumption DEF TypeOK, Shapes, EntriesWithinLimit
<1>5. Packed'
  BY ConstantsAssumption DEF TypeOK, Shapes, Packed
<1>6. Canonically'
  BY ConstantsAssumption DEF TypeOK, Shapes, Canonically, Steady
<1>7. Listed'
  BY ConstantsAssumption DEF TypeOK, Shapes, Listed, Steady, Opened
<1>8. EntriesListed'
  BY ConstantsAssumption DEF TypeOK, Shapes, EntriesListed
<1>9. Kept'
  BY ConstantsAssumption DEF TypeOK, Shapes, Kept, Wanted, Held, Opened
<1> QED
  BY <1>1, <1>2, <1>3, <1>4, <1>5, <1>6, <1>7, <1>8, <1>9 DEF IInv

\* A file appears, and is not steady.
LEMMA AppearInv ==
    ASSUME IInv, NEW f \in Files, Appear(f)
    PROVE  IInv'
<1> USE DEF IInv, Appear, filesystem, monitor, archive, loop, FsOther, Absent
<1>1. TypeOK'
  BY ConstantsAssumption DEF TypeOK, Shapes
<1>2. Shapes'
  BY ConstantsAssumption DEF TypeOK, Shapes
<1>3. Handle'
  BY ConstantsAssumption DEF TypeOK, Shapes, Handle, Opened, Kept, Wanted, Held
<1>4. EntriesWithinLimit'
  BY ConstantsAssumption DEF TypeOK, Shapes, EntriesWithinLimit
<1>5. Packed'
  BY ConstantsAssumption DEF TypeOK, Shapes, Packed
<1>6. Canonically'
  BY ConstantsAssumption DEF TypeOK, Shapes, Canonically, Steady
<1>7. Listed'
  BY ConstantsAssumption DEF TypeOK, Shapes, Listed, Steady, Opened
<1>8. EntriesListed'
  BY ConstantsAssumption DEF TypeOK, Shapes, EntriesListed
<1>9. Kept'
  BY ConstantsAssumption DEF TypeOK, Shapes, Kept, Wanted, Held, Opened
<1> QED
  BY <1>1, <1>2, <1>3, <1>4, <1>5, <1>6, <1>7, <1>8, <1>9 DEF IInv

-----------------------------------------------------------------------------
(* The calls of write_out.                                                 *)

\* The output is opened, and nothing is known yet.
LEMMA OpenOutputInv ==
    ASSUME IInv, OpenOutput
    PROVE  IInv'
<1> USE DEF IInv, OpenOutput, filesystem, monitor, archive, loop
<1>1. TypeOK'
  BY DEF TypeOK, Shapes
<1>2. Shapes'
  BY DEF TypeOK, Shapes
<1>3. Handle'
  BY DEF TypeOK, Shapes, Handle, Opened
<1>4. EntriesWithinLimit'
  BY DEF TypeOK, Shapes, EntriesWithinLimit
<1>5. Packed'
  BY DEF TypeOK, Shapes, Packed
<1>6. Canonically'
  BY DEF TypeOK, Shapes, Canonically, Steady
<1>7. Listed'
  BY DEF TypeOK, Shapes, Listed, Steady, Opened
<1>8. EntriesListed'
  BY DEF TypeOK, Shapes, EntriesListed
<1>9. Kept'
  BY DEF TypeOK, Shapes, Kept, Wanted, Held, Opened
<1> QED
  BY <1>1, <1>2, <1>3, <1>4, <1>5, <1>6, <1>7, <1>8, <1>9

\* The monitor answers; from the second answer on, files are watched.
LEMMA AskInv ==
    ASSUME IInv, Ask
    PROVE  IInv'
<1> USE DEF IInv, Ask, filesystem, monitor, archive, loop, Fitting, Absent
<1>1. TypeOK'
  BY ConstantsAssumption DEF TypeOK, Shapes
<1>2. Shapes'
  BY ConstantsAssumption DEF TypeOK, Shapes
<1>3. Handle'
  BY ConstantsAssumption DEF TypeOK, Shapes, Handle, Opened
<1>4. EntriesWithinLimit'
  BY ConstantsAssumption DEF TypeOK, Shapes, EntriesWithinLimit
<1>5. Packed'
  BY ConstantsAssumption DEF TypeOK, Shapes, Packed
<1>6. Canonically'
  BY ConstantsAssumption DEF TypeOK, Shapes, Canonically, Steady
<1>7. Listed'
  BY ConstantsAssumption DEF TypeOK, Shapes, Listed, Steady, Opened
<1>8. EntriesListed'
  BY ConstantsAssumption DEF TypeOK, Shapes, EntriesListed
<1>9. Kept'
  BY ConstantsAssumption DEF TypeOK, Shapes, Kept, Wanted, Held, Opened
<1> QED
  BY <1>1, <1>2, <1>3, <1>4, <1>5, <1>6, <1>7, <1>8, <1>9

\* A report is normalized: to the file's own path, if it is steady.
LEMMA NormalizeInv ==
    ASSUME IInv, NEW p \in Reports, Normalize(p)
    PROVE  IInv'
<1> USE DEF IInv, Normalize, filesystem, monitor, archive, loop
<1>1. TypeOK'
  BY Normal, ReportFile DEF TypeOK, Shapes
<1>2. Shapes'
  BY Normal, ReportFile DEF TypeOK, Shapes
<1>3. Handle'
  BY Normal, ReportFile DEF TypeOK, Shapes, Handle, Opened
<1>4. EntriesWithinLimit'
  BY Normal, ReportFile DEF TypeOK, Shapes, EntriesWithinLimit
<1>5. Packed'
  BY Normal, ReportFile DEF TypeOK, Shapes, Packed
<1>6. Canonically'
  BY Normal, ReportFile DEF TypeOK, Shapes, Canonically, Steady
<1>7. Listed'
  BY Normal, ReportFile DEF TypeOK, Shapes, Listed, Steady, Opened
<1>8. EntriesListed'
  BY Normal, ReportFile DEF TypeOK, Shapes, EntriesListed
<1>9. Kept'
  BY Normal, ReportFile DEF TypeOK, Shapes, Kept, Wanted, Held, Opened
<1> QED
  BY <1>1, <1>2, <1>3, <1>4, <1>5, <1>6, <1>7, <1>8, <1>9

\* All the reports are normalized.
LEMMA NormalizedInv ==
    ASSUME IInv, Normalized
    PROVE  IInv'
<1> USE DEF IInv, Normalized, filesystem, monitor, archive, loop
<1>1. TypeOK'
  BY DEF TypeOK, Shapes
<1>2. Shapes'
  BY DEF TypeOK, Shapes
<1>3. Handle'
  BY DEF TypeOK, Shapes, Handle, Opened
<1>4. EntriesWithinLimit'
  BY DEF TypeOK, Shapes, EntriesWithinLimit
<1>5. Packed'
  BY DEF TypeOK, Shapes, Packed
<1>6. Canonically'
  BY DEF TypeOK, Shapes, Canonically, Steady
<1>7. Listed'
  BY DEF TypeOK, Shapes, Listed, Steady, Opened
<1>8. EntriesListed'
  BY DEF TypeOK, Shapes, EntriesListed
<1>9. Kept'
  BY DEF TypeOK, Shapes, Kept, Wanted, Held, Opened
<1> QED
  BY <1>1, <1>2, <1>3, <1>4, <1>5, <1>6, <1>7, <1>8, <1>9

\* What is skipped is reserved or is not there.
LEMMA SkipInv ==
    ASSUME IInv, NEW p \in todo, Skip(p)
    PROVE  IInv'
<1> USE DEF IInv, Skip, filesystem, monitor, archive, loop
<1>1. TypeOK'
  BY DEF TypeOK, Shapes
<1>2. Shapes'
  BY DEF TypeOK, Shapes
<1>3. Handle'
  BY DEF TypeOK, Shapes, Handle, Opened
<1>4. EntriesWithinLimit'
  BY DEF TypeOK, Shapes, EntriesWithinLimit
<1>5. Packed'
  BY DEF TypeOK, Shapes, Packed
<1>6. Canonically'
  BY DEF TypeOK, Shapes, Canonically, Steady
<1>7. Listed'
  BY DEF TypeOK, Shapes, Listed, Steady, Opened
<1>8. EntriesListed'
  BY DEF TypeOK, Shapes, EntriesListed
<1>9. Kept'
  BY FileOfItself DEF TypeOK, Shapes, Kept, Wanted, Held, Opened, Exists
<1> QED
  BY <1>1, <1>2, <1>3, <1>4, <1>5, <1>6, <1>7, <1>8, <1>9

\* A file that cannot be opened is refused.
LEMMA OpenFailsInv ==
    ASSUME IInv, NEW p \in todo, OpenFails(p)
    PROVE  IInv'
<1> USE DEF IInv, OpenFails, filesystem, monitor, archive, loop
<1>1. TypeOK'
  BY NormalFormFile DEF TypeOK, Shapes, Exists
<1>2. Shapes'
  BY NormalFormFile DEF TypeOK, Shapes
<1>3. Handle'
  BY NormalFormFile DEF TypeOK, Shapes, Handle, Opened
<1>4. EntriesWithinLimit'
  BY NormalFormFile DEF TypeOK, Shapes, EntriesWithinLimit
<1>5. Packed'
  BY NormalFormFile DEF TypeOK, Shapes, Packed
<1>6. Canonically'
  BY NormalFormFile DEF TypeOK, Shapes, Canonically, Steady
<1>7. Listed'
  BY NormalFormFile DEF TypeOK, Shapes, Listed, Steady, Opened
<1>8. EntriesListed'
  BY NormalFormFile DEF TypeOK, Shapes, EntriesListed
<1>9. Kept'
  BY NormalFormFile, FileOfItself DEF TypeOK, Shapes, Kept, Wanted, Held, Opened, Exists
<1> QED
  BY <1>1, <1>2, <1>3, <1>4, <1>5, <1>6, <1>7, <1>8, <1>9

\* A file is opened by a path that is its own, if it is steady.
LEMMA OpenFileInv ==
    ASSUME IInv, NEW p \in todo, OpenFile(p)
    PROVE  IInv'
<1> USE DEF IInv, OpenFile, filesystem, monitor, archive, loop, Exists, Absent
<1>1. TypeOK'
  BY NormalFormFile, FileOfItself, ConstantsAssumption DEF TypeOK, Shapes
<1>2. Shapes'
  BY NormalFormFile, FileOfItself, ConstantsAssumption DEF TypeOK, Shapes, Currents
<1>3. Handle'
  BY NormalFormFile, FileOfItself DEF TypeOK, Shapes, Handle, Opened, Canonically, Steady
<1>4. EntriesWithinLimit'
  BY NormalFormFile, FileOfItself DEF TypeOK, Shapes, EntriesWithinLimit
<1>5. Packed'
  BY NormalFormFile, FileOfItself DEF TypeOK, Shapes, Packed
<1>6. Canonically'
  BY NormalFormFile, FileOfItself DEF TypeOK, Shapes, Canonically, Steady
<1>7. Listed'
  BY NormalFormFile, FileOfItself DEF TypeOK, Shapes, Listed, Steady, Opened, Canonically
<1>8. EntriesListed'
  BY NormalFormFile, FileOfItself DEF TypeOK, Shapes, EntriesListed
<1>9. Kept'
  BY NormalFormFile, FileOfItself DEF TypeOK, Shapes, Kept, Wanted, Held, Opened, Canonically, Steady
<1> QED
  BY <1>1, <1>2, <1>3, <1>4, <1>5, <1>6, <1>7, <1>8, <1>9

\* The handle's length is within the limit, and the entry's name is new.
LEMMA StartEntryInv ==
    ASSUME IInv, StartEntry
    PROVE  IInv'
<1> USE DEF IInv, StartEntry, filesystem, monitor, archive, loop, NextFile, NoFile
<1>a. \/ pc' = "loop" /\ current' = NoFile
      \/ /\ pc' = "copy" /\ current.len <= SizeLimit
         /\ current' = [current EXCEPT !.measured = current.len, !.lens = {current.len}]
  <2>1. current.len \in Nat /\ SizeLimit \in Nat
    BY ConstantsAssumption DEF TypeOK
  <2> QED
    BY <2>1 DEF Measure
<1>b. pc' = "loop" \/ /\ current'.path = current.path /\ current'.len = current.len
                       /\ current'.measured = current.len /\ current'.read = 0
                       /\ current'.file = current.file /\ current'.linked = current.linked
                       /\ current'.lens = {current.len} /\ current.len \in Nat
  BY <1>a DEF Shapes, Currents, Handle, Opened
<1>c. current'.len \in Nat /\ current'.measured \in Nat /\ current'.read \in Nat /\ current'.lens \subseteq Nat
  BY <1>a, <1>b DEF TypeOK
<1>1. TypeOK'
  BY <1>a, <1>b, <1>c DEF TypeOK
<1>2. Shapes'
  <2>1. \A n \in Nat : [current EXCEPT !.measured = n, !.lens = {n}] \in Currents
    BY DEF Shapes, Currents
  <2>2. NoFile \in Currents
    BY DEF Currents
  <2>3. current' = NoFile
        \/ (current.len \in Nat /\ current' = [current EXCEPT !.measured = current.len, !.lens = {current.len}])
    BY <1>a DEF TypeOK
  <2>4. current' \in Currents
    <3> HIDE DEF NoFile, StartEntry
    <3> QED
      BY <2>1, <2>2, <2>3
  <2> QED
    BY <1>a, <2>4 DEF Shapes
<1>3. Handle'
  BY <1>a, <1>b DEF TypeOK, Shapes, Handle, Opened
<1>4. EntriesWithinLimit'
  BY ConstantsAssumption DEF TypeOK, Shapes, EntriesWithinLimit
<1>5. Packed'
  BY ConstantsAssumption DEF TypeOK, Shapes, Packed
<1>6. Canonically'
  BY ConstantsAssumption DEF TypeOK, Shapes, Canonically, Steady
<1>7. Listed'
  BY <1>a, <1>b DEF TypeOK, Shapes, Listed, Steady, Opened
<1>8. EntriesListed'
  BY ConstantsAssumption DEF TypeOK, Shapes, EntriesListed
<1>9. Kept'
  BY <1>a, <1>b, ConstantsAssumption DEF TypeOK, Shapes, Kept, Wanted, Held, Opened, Handle
<1> QED
  BY <1>1, <1>2, <1>3, <1>4, <1>5, <1>6, <1>7, <1>8, <1>9

\* A file that gets no entry is refused.
LEMMA StartEntryFailsInv ==
    ASSUME IInv, StartEntryFails
    PROVE  IInv'
<1> USE DEF IInv, StartEntryFails, filesystem, monitor, archive, loop, NextFile, NoFile
<1>1. TypeOK'
  BY DEF TypeOK, Shapes, Handle, Opened
<1>2. Shapes'
  BY DEF TypeOK, Shapes, Currents
<1>3. Handle'
  BY DEF TypeOK, Shapes, Handle, Opened
<1>4. EntriesWithinLimit'
  BY DEF TypeOK, Shapes, EntriesWithinLimit
<1>5. Packed'
  BY DEF TypeOK, Shapes, Packed
<1>6. Canonically'
  BY DEF TypeOK, Shapes, Canonically, Steady
<1>7. Listed'
  BY DEF TypeOK, Shapes, Listed, Steady, Opened
<1>8. EntriesListed'
  BY DEF TypeOK, Shapes, EntriesListed
<1>9. Kept'
  BY DEF TypeOK, Shapes, Kept, Wanted, Held, Opened
<1> QED
  BY <1>1, <1>2, <1>3, <1>4, <1>5, <1>6, <1>7, <1>8, <1>9

\* No more is read than there was.
LEMMA CopyChunkInv ==
    ASSUME IInv, CopyChunk
    PROVE  IInv'
<1> USE DEF IInv, CopyChunk, filesystem, monitor, archive, loop
<1>a. /\ current' \in Currents /\ current'.read = current.read + 1 /\ current'.len = current.len
      /\ current'.path = current.path /\ current'.file = current.file
      /\ current'.linked = current.linked /\ current'.measured = current.measured
      /\ current'.lens = current.lens /\ current'.read <= current'.len
  BY DEF Shapes, Currents
<1>1. TypeOK'
  BY <1>a DEF TypeOK, Shapes, Handle, Opened, Currents
<1>2. Shapes'
  BY <1>a DEF Shapes
<1>3. Handle'
  BY <1>a DEF TypeOK, Shapes, Handle, Opened
<1>4. EntriesWithinLimit'
  BY DEF TypeOK, Shapes, EntriesWithinLimit
<1>5. Packed'
  BY DEF TypeOK, Shapes, Packed
<1>6. Canonically'
  BY DEF TypeOK, Shapes, Canonically, Steady
<1>7. Listed'
  BY <1>a DEF TypeOK, Shapes, Listed, Steady, Opened
<1>8. EntriesListed'
  BY DEF TypeOK, Shapes, EntriesListed
<1>9. Kept'
  BY <1>a DEF TypeOK, Shapes, Kept, Wanted, Held, Opened
<1> QED
  BY <1>1, <1>2, <1>3, <1>4, <1>5, <1>6, <1>7, <1>8, <1>9

\* The entry holds all that the handle has.
LEMMA CopyEndsInv ==
    ASSUME IInv, CopyEnds
    PROVE  IInv'
<1> USE DEF IInv, CopyEnds, filesystem, monitor, archive, loop, CloseEntry, NextFile, NoFile
<1> DEFINE new == [name |-> ZipEntryPath(current.path), path |-> current.path,
                   file |-> current.file, measured |-> current.measured,
                   lens |-> current.lens, bytes |-> current.read,
                   whole |-> TRUE]
<1>a. entries' = entries \cup {new} /\ pc = "copy" /\ pc' = "loop" /\ current' = NoFile
  OBVIOUS
<1>b. /\ new.name = ZipEntryPath(current.path) /\ new.path = current.path
      /\ new.file = current.file /\ new.measured = current.measured
      /\ new.lens = current.lens /\ new.bytes = current.read /\ new.whole = TRUE
  OBVIOUS
<1>c. /\ current.file \in Files /\ current.read \in Nat /\ current.measured \in Nat
      /\ current.lens \subseteq Nat
      /\ ~IsReservedPath(current.path)
      /\ \A e \in entries : e.name # new.name
      /\ current.measured <= SizeLimit /\ current.measured \in current.lens
      /\ \E n \in current.lens : current.read <= n
  BY <1>a, <1>b DEF TypeOK, Shapes, Handle, Opened
<1>d. current.len \in current.lens /\ (new.whole => current.len <= current.read)
  BY <1>b DEF TypeOK, Handle, Opened
<1> HIDE DEF new
<1>1. TypeOK'
  BY <1>a, <1>b, <1>c DEF TypeOK
<1>2. Shapes'
  <2>1. current' \in Currents
    BY <1>a DEF Currents
  <2>2. new.whole \in BOOLEAN
    BY <1>b
  <2> QED
    BY <1>a, <1>b, <1>c, <2>1, <2>2 DEF Shapes
<1>3. Handle'
  BY DEF TypeOK, Shapes, Handle, Opened
<1>4. EntriesWithinLimit'
  BY <1>a, <1>b, <1>c, <1>d DEF EntriesWithinLimit
<1>5. Packed'
  BY <1>a, <1>b, <1>c DEF Packed, Handle, Opened
<1>6. Canonically'
  BY DEF TypeOK, Shapes, Canonically, Steady
<1>7. Listed'
  BY DEF TypeOK, Shapes, Listed, Steady, Opened
<1>8. EntriesListed'
  BY DEF TypeOK, Shapes, EntriesListed, Listed, Steady, Opened
<1>9. Kept'
  BY <1>a, <1>b, <1>c DEF Kept, Wanted, Held, Opened
<1> QED
  BY <1>1, <1>2, <1>3, <1>4, <1>5, <1>6, <1>7, <1>8, <1>9

\* The entry stays as it is, and the file is refused.
LEMMA CopyFailsInv ==
    ASSUME IInv, CopyFails
    PROVE  IInv'
<1> USE DEF IInv, CopyFails, filesystem, monitor, archive, loop, CloseEntry, NextFile, NoFile
<1> DEFINE new == [name |-> ZipEntryPath(current.path), path |-> current.path,
                   file |-> current.file, measured |-> current.measured,
                   lens |-> current.lens, bytes |-> current.read,
                   whole |-> FALSE]
<1>a. entries' = entries \cup {new} /\ pc = "copy" /\ pc' = "loop" /\ current' = NoFile
  OBVIOUS
<1>b. /\ new.name = ZipEntryPath(current.path) /\ new.path = current.path
      /\ new.file = current.file /\ new.measured = current.measured
      /\ new.lens = current.lens /\ new.bytes = current.read /\ new.whole = FALSE
  OBVIOUS
<1>c. /\ current.file \in Files /\ current.read \in Nat /\ current.measured \in Nat
      /\ current.lens \subseteq Nat
      /\ ~IsReservedPath(current.path)
      /\ \A e \in entries : e.name # new.name
      /\ current.measured <= SizeLimit /\ current.measured \in current.lens
      /\ \E n \in current.lens : current.read <= n
  BY <1>a, <1>b DEF TypeOK, Shapes, Handle, Opened
<1>d. current.len \in current.lens /\ (new.whole => current.len <= current.read)
  BY <1>b DEF TypeOK, Handle, Opened
<1> HIDE DEF new
<1>1. TypeOK'
  BY <1>a, <1>b, <1>c DEF TypeOK
<1>2. Shapes'
  <2>1. current' \in Currents
    BY <1>a DEF Currents
  <2>2. new.whole \in BOOLEAN
    BY <1>b
  <2> QED
    BY <1>a, <1>b, <1>c, <2>1, <2>2 DEF Shapes
<1>3. Handle'
  BY DEF TypeOK, Shapes, Handle, Opened
<1>4. EntriesWithinLimit'
  BY <1>a, <1>b, <1>c, <1>d DEF EntriesWithinLimit
<1>5. Packed'
  BY <1>a, <1>b, <1>c DEF Packed, Handle, Opened
<1>6. Canonically'
  BY DEF TypeOK, Shapes, Canonically, Steady
<1>7. Listed'
  BY DEF TypeOK, Shapes, Listed, Steady, Opened
<1>8. EntriesListed'
  BY DEF TypeOK, Shapes, EntriesListed, Listed, Steady, Opened
<1>9. Kept'
  BY DEF TypeOK, Shapes, Kept, Wanted, Held, Opened
<1> QED
  BY <1>1, <1>2, <1>3, <1>4, <1>5, <1>6, <1>7, <1>8, <1>9

\* The archive is ended.
LEMMA FinishInv ==
    ASSUME IInv, Finish
    PROVE  IInv'
<1> USE DEF IInv, Finish, filesystem, monitor, archive, loop
<1>1. TypeOK'
  BY DEF TypeOK, Shapes
<1>2. Shapes'
  BY DEF TypeOK, Shapes
<1>3. Handle'
  BY DEF TypeOK, Shapes, Handle, Opened
<1>4. EntriesWithinLimit'
  BY DEF TypeOK, Shapes, EntriesWithinLimit
<1>5. Packed'
  BY DEF TypeOK, Shapes, Packed
<1>6. Canonically'
  BY DEF TypeOK, Shapes, Canonically, Steady
<1>7. Listed'
  BY DEF TypeOK, Shapes, Listed, Steady, Opened
<1>8. EntriesListed'
  BY DEF TypeOK, Shapes, EntriesListed
<1>9. Kept'
  BY DEF TypeOK, Shapes, Kept, Wanted, Held, Opened
<1> QED
  BY <1>1, <1>2, <1>3, <1>4, <1>5, <1>6, <1>7, <1>8, <1>9

\* An error ends the call.
LEMMA FailsInv ==
    ASSUME IInv, Fails
    PROVE  IInv'
<1> USE DEF IInv, Fails, filesystem, monitor, archive, loop
<1>1. TypeOK'
  BY DEF TypeOK, Shapes
<1>2. Shapes'
  BY DEF TypeOK, Shapes
<1>3. Handle'
  BY DEF TypeOK, Shapes, Handle, Opened
<1>4. EntriesWithinLimit'
  BY DEF TypeOK, Shapes, EntriesWithinLimit
<1>5. Packed'
  BY DEF TypeOK, Shapes, Packed
<1>6. Canonically'
  BY DEF TypeOK, Shapes, Canonically, Steady
<1>7. Listed'
  BY DEF TypeOK, Shapes, Listed, Steady, Opened
<1>8. EntriesListed'
  BY DEF TypeOK, Shapes, EntriesListed
<1>9. Kept'
  BY DEF TypeOK, Shapes, Kept, Wanted, Held, Opened
<1> QED
  BY <1>1, <1>2, <1>3, <1>4, <1>5, <1>6, <1>7, <1>8, <1>9

-----------------------------------------------------------------------------
(* The theorems.                                                           *)

LEMMA StepInv == IInv /\ [Next]_vars => IInv'
<1> SUFFICES ASSUME IInv, [Next]_vars PROVE IInv'
  OBVIOUS
<1>1. CASE FileSystem
  BY <1>1, GrowInv, VanishInv, AppearInv DEF FileSystem
<1>2. CASE WriteOut
  <2>1. CASE OpenOutput \/ Ask \/ Normalized \/ Finish \/ Fails
    BY <2>1, OpenOutputInv, AskInv, NormalizedInv, FinishInv, FailsInv
  <2>2. CASE \E p \in Reports : Normalize(p)
    BY <2>2, NormalizeInv
  <2>3. CASE \E p \in todo : Skip(p) \/ OpenFails(p) \/ OpenFile(p)
    BY <2>3, SkipInv, OpenFailsInv, OpenFileInv
  <2>4. CASE StartEntry \/ StartEntryFails \/ CopyChunk \/ CopyEnds \/ CopyFails
    BY <2>4, StartEntryInv, StartEntryFailsInv, CopyChunkInv, CopyEndsInv, CopyFailsInv
  <2> QED
    BY <1>2, <2>1, <2>2, <2>3, <2>4 DEF WriteOut
<1>3. CASE UNCHANGED vars
  <2> USE <1>3 DEF IInv, vars, filesystem, monitor, archive, loop
  <2>1. TypeOK' /\ Shapes' /\ Handle'
    BY DEF TypeOK, Shapes, Handle, Opened
  <2>2. EntriesWithinLimit' /\ Packed' /\ EntriesListed'
    BY DEF EntriesWithinLimit, Packed, EntriesListed
  <2>3. Canonically' /\ Listed' /\ Kept'
    BY DEF Canonically, Listed, Kept, Wanted, Held, Steady, Opened
  <2> QED
    BY <2>1, <2>2, <2>3
<1> QED
  BY <1>1, <1>2, <1>3 DEF Next

\* The invariant that the other theorems follow from.
THEOREM Inductive == Spec => []IInv
BY InitInv, StepInv, PTL DEF Spec

\* Every variable of write_out keeps to its values, and nothing reserved is
\* opened or packed.
THEOREM TypeCorrect == Spec => []TypeOK
<1>1. IInv => TypeOK
  BY DEF IInv
<1> QED
  BY <1>1, Inductive, PTL

\* A file is measured through the handle it is read from, so that no entry is
\* of a file that was too large when it was looked at.
THEOREM WithinLimit == Spec => []EntriesWithinLimit
<1>1. IInv => EntriesWithinLimit
  BY DEF IInv
<1> QED
  BY <1>1, Inductive, PTL

\* The file with two names is normalized to one, unless it churns meanwhile.
THEOREM OneEntryPerFile == Spec => []NoFileTwice
<1>1. IInv => NoFileTwice
  BY DEF IInv, Packed, NoFileTwice
<1> QED
  BY <1>1, Inductive, PTL

\* The metadata and the files are normalized apart, and agree all the same.
THEOREM ListedInMetadata == Spec => []EntriesListed
<1>1. IInv => EntriesListed
  BY DEF IInv
<1> QED
  BY <1>1, Inductive, PTL

\* Files that fail or vanish keep no other file out of the archive.
THEOREM AllPacked == Spec => []NothingForgotten
<1>1. IInv => NothingForgotten
  BY DEF IInv, Kept, Held, Wanted, Opened, NothingForgotten
<1> QED
  BY <1>1, Inductive, PTL

-----------------------------------------------------------------------------
(* As a writer of an archive.                                              *)

\* write_out opens, refuses, finishes or breaks, and does nothing else that
\* its caller could see.
THEOREM ImplementsWriterHolds == Spec => ImplementsWriter
<1>1. Init => Abstract!Init
  BY DEF Init, Abstract!Init, Writer
<1>2. [Next]_vars => [Abstract!Next]_(Abstract!vars)
  <2> SUFFICES ASSUME [Next]_vars PROVE Abstract!Next \/ UNCHANGED Abstract!vars
    BY DEF Abstract!vars
  <2> USE DEF Writer, Abstract!vars, filesystem, monitor, archive, loop
  <2>1. CASE OpenOutput
    BY <2>1 DEF OpenOutput, Abstract!Next, Abstract!Open
  <2>2. CASE Finish
    BY <2>2 DEF Finish, Abstract!Next, Abstract!Finish
  <2>3. CASE Fails
    BY <2>3 DEF Fails, Abstract!Next, Abstract!Refuse, Abstract!Break
  <2>4. CASE Ask \/ Normalized \/ \E p \in Reports : Normalize(p)
    BY <2>4 DEF Ask, Normalized, Normalize
  <2>5. CASE \E p \in todo : Skip(p) \/ OpenFails(p) \/ OpenFile(p)
    BY <2>5 DEF Skip, OpenFails, OpenFile
  <2>6. CASE StartEntry \/ StartEntryFails \/ CopyChunk \/ CopyEnds \/ CopyFails
    BY <2>6 DEF StartEntry, StartEntryFails, CopyChunk, CopyEnds, CopyFails, CloseEntry, NextFile
  <2>7. CASE FileSystem
    BY <2>7 DEF FileSystem, Grow, Truncate, Resize, Vanish, Appear, FsOther
  <2>8. CASE UNCHANGED vars
    BY <2>8 DEF vars
  <2> QED
    BY <2>1, <2>2, <2>3, <2>4, <2>5, <2>6, <2>7, <2>8 DEF Next, WriteOut
<1> QED
  BY <1>1, <1>2, PTL DEF Spec, ImplementsWriter, Abstract!Spec
=============================================================================
