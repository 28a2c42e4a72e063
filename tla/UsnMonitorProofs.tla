-------------------------- MODULE UsnMonitorProofs --------------------------
(***************************************************************************)
(* UsnMonitor for journals and buffers of every size and any number of     *)
(* files: types, that a call of get_changed_files works on exactly the     *)
(* records between start() and stop(), that it is a ChangeMonitor, and     *)
(* what its answers say of plain and of settled files, that they agree     *)
(* with each other, and that every turn of a call takes it further.        *)
(***************************************************************************)
EXTENDS UsnMonitor, WellFoundedInduction, TLAPS

LogRecord == [file : Files, reasons : SUBSET Reasons, name : BareNames]

\* The loop of read_range has read all from the start of the range up to its
\* cursor, and the range ends where stop() found the end of the journal.
RangeInv ==
    /\ pc \in {"tracking", "stopped", "reading", "aggregate", "resolving", "answered"}
          => initialUsn \in 1 .. NextUsn
    /\ pc \in {"stopped", "reading", "aggregate", "resolving", "answered"}
          => endUsn \in initialUsn .. NextUsn
    /\ pc = "reading" =>
          /\ rangeEnd = endUsn
          /\ cursor \in initialUsn .. (rangeEnd - 1)
          /\ records = initialUsn .. (cursor - 1)
    /\ RangeExact

IInv == TypeOK /\ RangeInv

-----------------------------------------------------------------------------
(* The journal only grows.                                                 *)

LEMMA LogAppend ==
    ASSUME TypeOK, NEW r \in Seq(LogRecord), Append2(r)
    PROVE  /\ log' \in Seq(LogRecord)
           /\ Len(log') \in Nat /\ Len(log) \in Nat
           /\ Len(log') >= Len(log)
<1>1. log \in Seq(LogRecord)
  BY DEF TypeOK, LogRecord
<1>2. log' = log \o r
  BY DEF Append2
<1> QED
  BY <1>1, <1>2

LEMMA LogLength == TypeOK => Len(log) \in Nat /\ NextUsn \in Nat \ {0}
BY DEF TypeOK, NextUsn

\* A step of the file system that leaves the journal as it is or appends to
\* it, and moves FirstUsn within it, keeps what concerns the monitor.
LEMMA MonitorUntouched ==
    ASSUME IInv,
           log' \in Seq(LogRecord), Len(log') \in Nat, Len(log') >= Len(log),
           first' \in 1 .. (Len(log') + 1),
           open' \in [Files -> SUBSET Reasons],
           name' \in [Files -> Names \cup {Unborn, Gone}],
           UNCHANGED <<pc, range, reading, answer>>
    PROVE  IInv'
<1>1. Len(log) \in Nat /\ NextUsn' = Len(log') + 1 /\ NextUsn = Len(log) + 1
  BY LogLength DEF IInv, NextUsn
<1>2. /\ pc' = pc /\ initialUsn' = initialUsn /\ endUsn' = endUsn
      /\ rangeEnd' = rangeEnd /\ cursor' = cursor /\ records' = records
      /\ ids' = ids /\ todo' = todo /\ paths' = paths /\ outcome' = outcome
  BY DEF range, reading, answer
<1>3. TypeOK'
  <2>1. /\ initialUsn' \in 0 .. NextUsn' /\ endUsn' \in 0 .. NextUsn'
        /\ rangeEnd' \in 0 .. NextUsn' /\ cursor' \in 0 .. NextUsn'
        /\ records' \subseteq 1 .. Len(log')
    BY <1>1, <1>2 DEF IInv, TypeOK
  <2>2. /\ pc' \in {"new", "tracking", "stopped", "reading", "aggregate", "resolving",
                    "answered", "error"}
        /\ ids' \in [Files -> SUBSET Options] /\ paths' \in [PathKeys -> SUBSET Options]
        /\ todo' \subseteq Files /\ outcome' \in [Files -> Codes \cup {Resolved}]
    BY <1>2 DEF IInv, TypeOK
  <2> QED
    BY <1>1, <2>1, <2>2 DEF TypeOK, LogRecord
<1>4. RangeInv'
  BY <1>1, <1>2 DEF IInv, TypeOK, RangeInv, RangeExact
<1> QED
  BY <1>3, <1>4 DEF IInv

-----------------------------------------------------------------------------
LEMMA InitEstablishes == Init => IInv
<1> SUFFICES ASSUME Init PROVE IInv
  OBVIOUS
<1> USE DEF Init
<1>1. Len(log) = 0 /\ NextUsn = 1
  BY DEF NextUsn
<1>2. log \in Seq(LogRecord)
  OBVIOUS
<1>3. ids \in [Files -> SUBSET Options] /\ paths \in [PathKeys -> SUBSET Options]
  BY DEF NoIds, NoPaths, NoFlags
<1>o. outcome \in [Files -> Codes \cup {Resolved}]
  BY DEF AllResolved
<1>4. name \in [Files -> Names \cup {Unborn, Gone}] /\ open \in [Files -> SUBSET Reasons]
  BY ConstantsAssumption
<1>5. TypeOK
  BY <1>1, <1>2, <1>3, <1>o, <1>4 DEF TypeOK, LogRecord
<1>6. RangeInv
  BY DEF RangeInv, RangeExact
<1> QED
  BY <1>5, <1>6 DEF IInv

-----------------------------------------------------------------------------
LEMMA FileSystemPreserves ==
    ASSUME IInv, FileSystem
    PROVE  IInv'
<1> USE DEF FsOther
<1>t. /\ log \in Seq(LogRecord) /\ first \in 1 .. NextUsn
      /\ open \in [Files -> SUBSET Reasons]
      /\ name \in [Files -> Names \cup {Unborn, Gone}]
      /\ Len(log) \in Nat /\ NextUsn = Len(log) + 1
  BY LogLength DEF IInv, TypeOK, LogRecord, NextUsn
<1>r. ASSUME NEW f \in Files, NEW reasons \in SUBSET Reasons, NEW n \in Names
      PROVE  Record(f, reasons, n) \in LogRecord
  BY DEF Record, LogRecord, BareNames
<1>a. ASSUME NEW r \in Seq(LogRecord), Append2(r), first' = first
      PROVE  /\ log' \in Seq(LogRecord) /\ Len(log') \in Nat /\ Len(log') >= Len(log)
             /\ first' \in 1 .. (Len(log') + 1)
  BY <1>a, <1>t, LogAppend DEF IInv
<1>1. ASSUME NEW f \in Files, NEW n \in Names, CreateFile(f, n) PROVE IInv'
  <2>1. <<Record(f, {"FILE_CREATE"}, n)>> \in Seq(LogRecord)
    BY <1>r DEF Reasons
  <2>2. open' \in [Files -> SUBSET Reasons] /\ name' \in [Files -> Names \cup {Unborn, Gone}]
    BY <1>1, <1>t DEF CreateFile, Reasons
  <2> QED
    BY <1>1, <1>a, <2>1, <2>2, MonitorUntouched DEF CreateFile
<1>2. ASSUME NEW f \in Files, NEW n \in Names, RenameFile(f, n) PROVE IInv'
  <2>1. /\ open[f] \cup {"RENAME_OLD_NAME"} \in SUBSET Reasons
        /\ open[f] \cup {"RENAME_NEW_NAME"} \in SUBSET Reasons
        /\ name[f] \in Names
    BY <1>2, <1>t DEF RenameFile, Exists, Reasons
  <2>2. <<Record(f, open[f] \cup {"RENAME_OLD_NAME"}, name[f]),
          Record(f, open[f] \cup {"RENAME_NEW_NAME"}, n)>> \in Seq(LogRecord)
    BY <2>1, <1>r
  <2>3. open' \in [Files -> SUBSET Reasons] /\ name' \in [Files -> Names \cup {Unborn, Gone}]
    BY <1>2, <1>t, <2>1 DEF RenameFile
  <2> QED
    BY <1>2, <1>a, <2>2, <2>3, MonitorUntouched DEF RenameFile
<1>3. ASSUME NEW f \in Files, NEW reason \in Touches, TouchFile(f, reason) PROVE IInv'
  <2>1. reason \in Reasons
    BY ConstantsAssumption DEF Reasons
  <2>2. open[f] \cup {reason} \in SUBSET Reasons /\ name[f] \in Names
    BY <1>3, <1>t, <2>1 DEF TouchFile, Exists
  <2>3. <<Record(f, open[f] \cup {reason}, name[f])>> \in Seq(LogRecord)
    BY <2>2, <1>r
  <2>4. open' \in [Files -> SUBSET Reasons] /\ name' = name /\ first' = first
    BY <1>3, <1>t, <2>2 DEF TouchFile
  <2>5. CASE log' = log
    BY <1>3, <1>t, <2>4, <2>5, MonitorUntouched DEF TouchFile
  <2>6. CASE Append2(<<Record(f, open[f] \cup {reason}, name[f])>>)
    BY <1>3, <1>a, <1>t, <2>3, <2>4, <2>6, MonitorUntouched DEF TouchFile
  <2> QED
    BY <1>3, <2>5, <2>6 DEF TouchFile
<1>4. ASSUME NEW f \in Files, CloseFile(f) PROVE IInv'
  <2>1. open[f] \cup {"CLOSE"} \in SUBSET Reasons /\ name[f] \in Names
    BY <1>4, <1>t DEF CloseFile, Exists, Reasons
  <2>2. <<Record(f, open[f] \cup {"CLOSE"}, name[f])>> \in Seq(LogRecord)
    BY <2>1, <1>r
  <2>3. open' \in [Files -> SUBSET Reasons] /\ name' = name
    BY <1>4, <1>t DEF CloseFile
  <2> QED
    BY <1>4, <1>a, <1>t, <2>2, <2>3, MonitorUntouched DEF CloseFile
<1>5. ASSUME NEW f \in Files, DeleteFile(f) PROVE IInv'
  <2>1. open[f] \cup {"FILE_DELETE", "CLOSE"} \in SUBSET Reasons /\ name[f] \in Names
    BY <1>5, <1>t DEF DeleteFile, Exists, Reasons
  <2>2. <<Record(f, open[f] \cup {"FILE_DELETE", "CLOSE"}, name[f])>> \in Seq(LogRecord)
    BY <2>1, <1>r
  <2>3. open' \in [Files -> SUBSET Reasons] /\ name' \in [Files -> Names \cup {Unborn, Gone}]
    BY <1>5, <1>t DEF DeleteFile
  <2> QED
    BY <1>5, <1>a, <2>2, <2>3, MonitorUntouched DEF DeleteFile
<1>6. CASE TrimJournal
  <2>1. first' \in 1 .. (Len(log') + 1) /\ log' = log
    BY <1>6, <1>t DEF TrimJournal
  <2> QED
    BY <1>6, <1>t, <2>1, MonitorUntouched DEF TrimJournal, answer, range, reading
<1> QED
  BY <1>1, <1>2, <1>3, <1>4, <1>5, <1>6 DEF FileSystem

-----------------------------------------------------------------------------
(* The monitor.                                                            *)

\* Every entry made from the records read is made of tracked flags.
LEMMA MetaIsTracked ==
    ASSUME NEW reasons
    PROVE  GetMeta(reasons) \subseteq Options
BY DEF GetMeta

\* The keys of the map while the ids are resolved do not matter to its type.
LEMMA PathsTyped ==
    ASSUME paths \in [PathKeys -> SUBSET Options], NEW k, NEW flags \in SUBSET Options
    PROVE  [paths EXCEPT ![k] = flags] \in [PathKeys -> SUBSET Options]
OBVIOUS

\* A turn of the loop advances the cursor, takes what lies before the end of
\* the range and nothing else, and leaves the loop only with all of it.
LEMMA ReadBatchPreserves ==
    ASSUME IInv, ReadBatch
    PROVE  IInv'
<1> DEFINE next == Lesser(cursor + Batch, NextUsn)
           read == cursor .. (next - 1)
           kept == IF next > rangeEnd THEN {u \in read : u < rangeEnd} ELSE read
<1>1. /\ Len(log) \in Nat /\ NextUsn = Len(log) + 1
      /\ initialUsn \in 1 .. NextUsn /\ endUsn \in initialUsn .. NextUsn
      /\ rangeEnd = endUsn /\ cursor \in initialUsn .. (rangeEnd - 1)
      /\ records = initialUsn .. (cursor - 1)
      /\ first \in 1 .. NextUsn
  BY LogLength DEF IInv, RangeInv, ReadBatch, NextUsn, TypeOK
<1>2. next \in (cursor + 1) .. NextUsn
  BY <1>1, ConstantsAssumption DEF Lesser
<1>3. /\ UNCHANGED <<journal, range, answer, history>> /\ pc = "reading"
      /\ NextUsn' = NextUsn /\ Len(log') = Len(log)
  BY DEF ReadBatch, journal, NextUsn
<1>4. CASE cursor < first
  <2>1. pc' = "error" /\ UNCHANGED reading
    BY <1>4 DEF ReadBatch
  <2> QED
    BY <1>3, <2>1 DEF IInv, TypeOK, RangeInv, RangeExact, journal, range, reading, answer
<1>5. CASE ~(cursor < first)
  <2>1. /\ records' = records \cup kept
        /\ cursor' = next
        /\ pc' = IF next < rangeEnd THEN "reading" ELSE "aggregate"
        /\ rangeEnd' = rangeEnd
    BY <1>5 DEF ReadBatch
  <2>2. CASE next < rangeEnd
    <3>1. records' = initialUsn .. (next - 1)
      BY <1>1, <1>2, <2>1, <2>2
    <3>2. RangeInv'
      BY <1>1, <1>2, <1>3, <2>1, <2>2, <3>1 DEF RangeInv, RangeExact, range
    <3>3. TypeOK'
      BY <1>1, <1>2, <1>3, <2>1, <2>2, <3>1 DEF IInv, TypeOK, journal, range, answer
    <3> QED
      BY <3>2, <3>3 DEF IInv
  <2>3. CASE ~(next < rangeEnd)
    <3>1. records' = initialUsn .. (endUsn - 1)
      BY <1>1, <1>2, <2>1, <2>3
    <3>2. RangeInv'
      BY <1>1, <1>2, <1>3, <2>1, <2>3, <3>1 DEF RangeInv, RangeExact, range
    <3>3. TypeOK'
      BY <1>1, <1>2, <1>3, <2>1, <2>3, <3>1 DEF IInv, TypeOK, journal, range, answer
    <3> QED
      BY <3>2, <3>3 DEF IInv
  <2> QED
    BY <2>2, <2>3
<1> QED
  BY <1>4, <1>5

LEMMA QueryRangePreserves ==
    ASSUME IInv, QueryRange
    PROVE  IInv'
<1>1. /\ Len(log) \in Nat /\ NextUsn = Len(log) + 1
      /\ initialUsn \in 1 .. NextUsn /\ endUsn \in initialUsn .. NextUsn
  BY LogLength DEF IInv, RangeInv, QueryRange, NextUsn
<1>2. /\ UNCHANGED <<journal, range, history>>
      /\ NextUsn' = NextUsn /\ Len(log') = Len(log)
  BY DEF QueryRange, journal, NextUsn
<1>3. rangeEnd' = endUsn /\ cursor' = initialUsn /\ records' = {}
  BY <1>1 DEF QueryRange, Lesser
<1>4. RangeInv'
  BY <1>1, <1>2, <1>3 DEF QueryRange, RangeInv, RangeExact, range
<1>5. ids' \in [Files -> SUBSET Options] /\ paths' \in [PathKeys -> SUBSET Options] /\ todo' = {}
      /\ outcome' \in [Files -> Codes \cup {Resolved}]
  BY DEF QueryRange, NoIds, NoPaths, NoFlags, AllResolved
<1>6. pc' \in {"error", "reading", "aggregate"}
  BY DEF QueryRange
<1>7. TypeOK'
  BY <1>1, <1>2, <1>3, <1>5, <1>6 DEF IInv, TypeOK, journal, range
<1> QED
  BY <1>4, <1>7 DEF IInv

LEMMA AggregatePreserves ==
    ASSUME IInv, Aggregate
    PROVE  IInv'
<1>1. /\ UNCHANGED <<journal, range, reading, paths, outcome, history>>
      /\ pc = "aggregate" /\ pc' = "resolving"
      /\ NextUsn' = NextUsn
  BY DEF Aggregate, journal, NextUsn
<1>2. ids' \in [Files -> SUBSET Options]
  <2>1. ASSUME NEW f \in Files
        PROVE  UNION {GetMeta(log[u].reasons) : u \in Counted(f)} \in SUBSET Options
    BY MetaIsTracked
  <2> QED
    BY <2>1 DEF Aggregate
<1>3. todo' \subseteq Files
  BY DEF Aggregate
<1>4. TypeOK'
  BY <1>1, <1>2, <1>3 DEF IInv, TypeOK, journal, range, reading
<1>5. RangeInv'
  BY <1>1 DEF IInv, RangeInv, RangeExact, journal, range, reading
<1> QED
  BY <1>4, <1>5 DEF IInv

LEMMA MonitorPreserves ==
    ASSUME IInv, Monitor
    PROVE  IInv'
<1>1. CASE Start
  <2>1. /\ Len(log) \in Nat /\ NextUsn = Len(log) + 1 /\ NextUsn' = NextUsn
    BY <1>1, LogLength DEF IInv, Start, journal, NextUsn
  <2> QED
    BY <1>1, <2>1 DEF IInv, TypeOK, RangeInv, RangeExact, Start, journal, reading, answer
<1>2. CASE Stop
  <2>1. /\ Len(log) \in Nat /\ NextUsn = Len(log) + 1 /\ NextUsn' = NextUsn
    BY <1>2, LogLength DEF IInv, Stop, journal, NextUsn
  <2> QED
    BY <1>2, <2>1 DEF IInv, TypeOK, RangeInv, RangeExact, Stop, journal, reading, answer
<1>3. CASE QueryRange
  BY <1>3, QueryRangePreserves
<1>4. CASE ReadBatch
  BY <1>4, ReadBatchPreserves
<1>5. CASE Aggregate
  BY <1>5, AggregatePreserves
<1>6. ASSUME NEW f \in Files, ResolveFile(f) PROVE IInv'
  <2>1. /\ paths' \in [PathKeys -> SUBSET Options] /\ todo' \subseteq Files
        /\ outcome' \in [Files -> Codes \cup {Resolved}]
    BY <1>6, PathsTyped DEF IInv, TypeOK, ResolveFile
  <2>2. NextUsn' = NextUsn
    BY <1>6 DEF ResolveFile, journal, NextUsn
  <2> QED
    BY <1>6, <2>1, <2>2 DEF IInv, TypeOK, RangeInv, RangeExact, ResolveFile,
                            journal, range, reading
<1>7. CASE Answer
  <2>1. NextUsn' = NextUsn
    BY <1>7 DEF Answer, journal, NextUsn
  <2> QED
    BY <1>7, <2>1 DEF IInv, TypeOK, RangeInv, RangeExact, Answer,
                      journal, range, reading, answer
<1>8. CASE IoFails
  <2>1. NextUsn' = NextUsn
    BY <1>8 DEF IoFails, journal, NextUsn
  <2> QED
    BY <1>8, <2>1 DEF IInv, TypeOK, RangeInv, RangeExact, IoFails,
                      journal, range, reading, answer
<1> QED
  BY <1>1, <1>2, <1>3, <1>4, <1>5, <1>6, <1>7, <1>8 DEF Monitor

LEMMA StutterPreserves ==
    ASSUME IInv, UNCHANGED vars
    PROVE  IInv'
BY DEF IInv, TypeOK, RangeInv, RangeExact, NextUsn, vars, journal, range, reading, answer, history

-----------------------------------------------------------------------------
\* The inductive invariant holds throughout.
THEOREM InductiveInvariant == Spec => []IInv
<1>1. Init => IInv
  BY InitEstablishes
<1>2. IInv /\ [Next]_vars => IInv'
  BY FileSystemPreserves, MonitorPreserves, StutterPreserves DEF Next
<1> QED
  BY <1>1, <1>2, PTL DEF Spec

\* The variables stay within their types, the answers within the tracked flags.
THEOREM TypeCorrect == Spec => []TypeOK
<1>1. IInv => TypeOK
  BY DEF IInv
<1> QED
  BY <1>1, InductiveInvariant, PTL

\* A call of get_changed_files works on the records between start() and
\* stop(), all of them and no other (usn.rs:351-396), however the journal
\* grows or is trimmed between its reads.
THEOREM RangeIsExact == Spec => []RangeExact
<1>1. IInv => RangeExact
  BY DEF IInv, RangeInv
<1> QED
  BY <1>1, InductiveInvariant, PTL

-----------------------------------------------------------------------------
(* The monitor implements the trait's specification.                       *)

\* Once stop() has returned, the records noted are those of the range.
LEMMA NotedIsRange ==
    ASSUME IInv, pc \notin {"new", "tracking", "error"}
    PROVE  Noted = initialUsn .. (endUsn - 1)
BY DEF Noted, IInv, TypeOK, RangeInv, RangeExact

\* A step within or after a call of get_changed_files that does not fail.
LEMMA CallStutters ==
    ASSUME IInv, IInv', UNCHANGED range,
           pc \notin {"new", "tracking", "error"}, pc' \notin {"new", "tracking", "error"}
    PROVE  UNCHANGED Abstract!vars
<1>1. Noted' = Noted
  <2>1. Noted = initialUsn .. (endUsn - 1) /\ (Noted)' = initialUsn' .. (endUsn' - 1)
    BY NotedIsRange DEF Noted, IInv, TypeOK, RangeInv, RangeExact
  <2> QED
    BY <2>1 DEF range
<1>2. MonitorPhase' = MonitorPhase
  BY DEF MonitorPhase
<1> QED
  BY <1>1, <1>2 DEF Abstract!vars

\* An error is an error of the trait.
LEMMA ErrorRefines ==
    ASSUME IInv, pc # "error", pc' = "error"
    PROVE  Abstract!Next
BY DEF MonitorPhase, Noted, IInv, TypeOK, Abstract!Next, Abstract!Fail


\* Every step of the file system leaves the journal as it is or appends to it.
LEMMA AppendGrows ==
    ASSUME TypeOK, NEW S, NEW r \in Seq(S), Append2(r)
    PROVE  Len(log) \in Nat /\ Len(log') \in Nat /\ Len(log') >= Len(log)
<1>1. log \in Seq(LogRecord)
  BY DEF TypeOK, LogRecord
<1>2. log \in Seq(LogRecord \cup S) /\ r \in Seq(LogRecord \cup S)
  BY <1>1
<1>3. log' = log \o r
  BY DEF Append2
<1> QED
  BY <1>2, <1>3

LEMMA LogGrows ==
    ASSUME IInv, FileSystem
    PROVE  /\ UNCHANGED <<pc, range, reading, answer>>
           /\ Len(log) \in Nat /\ Len(log') \in Nat /\ Len(log') >= Len(log)
<1> USE DEF IInv
<1>1. UNCHANGED <<pc, range, reading, answer>>
  BY DEF FileSystem, CreateFile, RenameFile, TouchFile, CloseFile, DeleteFile, TrimJournal, FsOther
<1>2. ASSUME log' = log
      PROVE  Len(log) \in Nat /\ Len(log') \in Nat /\ Len(log') >= Len(log)
  BY <1>2, LogLength
<1>3. ASSUME NEW x, Append2(<<x>>)
      PROVE  Len(log) \in Nat /\ Len(log') \in Nat /\ Len(log') >= Len(log)
  <2>1. <<x>> \in Seq({x})
    OBVIOUS
  <2> QED
    BY <2>1, <1>3, AppendGrows
<1>4. ASSUME NEW x, NEW y, Append2(<<x, y>>)
      PROVE  Len(log) \in Nat /\ Len(log') \in Nat /\ Len(log') >= Len(log)
  <2>1. <<x, y>> \in Seq({x, y})
    OBVIOUS
  <2> QED
    BY <2>1, <1>4, AppendGrows
<1>5. \/ log' = log
      \/ \E x : Append2(<<x>>)
      \/ \E x, y : Append2(<<x, y>>)
  BY DEF FileSystem, CreateFile, RenameFile, TouchFile, CloseFile, DeleteFile, TrimJournal
<1> QED
  BY <1>1, <1>2, <1>3, <1>4, <1>5

LEMMA FileSystemRefines ==
    ASSUME IInv, FileSystem
    PROVE  [Abstract!Next]_(Abstract!vars)
<1>1. /\ pc' = pc /\ initialUsn' = initialUsn /\ endUsn' = endUsn /\ records' = records
      /\ Len(log) \in Nat /\ Len(log') \in Nat /\ Len(log') >= Len(log)
  BY LogGrows DEF range, reading
<1>2. MonitorPhase' = MonitorPhase
  BY <1>1 DEF MonitorPhase
<1>3. CASE pc = "tracking"
  <2>1. initialUsn \in Nat \ {0}
    BY <1>1, <1>3, LogLength DEF IInv, RangeInv
  <2>2. Noted = initialUsn .. Len(log) /\ (Noted)' = initialUsn .. Len(log')
    BY <1>1, <1>3 DEF Noted
  <2>3. (Noted)' \in SUBSET Nat /\ Noted \subseteq (Noted)'
    BY <1>1, <2>1, <2>2
  <2>4. MonitorPhase = "started"
    BY <1>3 DEF MonitorPhase
  <2> QED
    BY <1>2, <2>3, <2>4 DEF Abstract!Next, Abstract!Note
<1>4. CASE pc # "tracking"
  BY <1>1, <1>2, <1>4 DEF Noted, Abstract!vars
<1> QED
  BY <1>3, <1>4

LEMMA MonitorRefines ==
    ASSUME IInv, IInv', Monitor
    PROVE  [Abstract!Next]_(Abstract!vars)
<1>1. CASE Start
  <2>1. Len(log) \in Nat /\ NextUsn = Len(log) + 1 /\ log' = log
    BY <1>1, LogLength DEF IInv, Start, journal, NextUsn
  <2>2. pc = "new" /\ pc' = "tracking" /\ initialUsn' = Len(log) + 1
    BY <1>1, <2>1 DEF Start
  <2>3. Noted = {} /\ (Noted)' = {}
    BY <2>1, <2>2 DEF Noted
  <2>4. MonitorPhase = "new" /\ (MonitorPhase)' = "started"
    BY <2>2 DEF MonitorPhase
  <2> QED
    BY <2>3, <2>4 DEF Abstract!Next, Abstract!Start
<1>2. CASE Stop
  <2>1. Len(log) \in Nat /\ NextUsn = Len(log) + 1 /\ initialUsn' = initialUsn
    BY <1>2, LogLength DEF IInv, Stop, NextUsn
  <2>2. pc = "tracking" /\ pc' = "stopped" /\ endUsn' = Len(log) + 1
    BY <1>2, <2>1 DEF Stop
  <2>3. Noted = initialUsn .. Len(log) /\ (Noted)' = initialUsn .. ((Len(log) + 1) - 1)
    BY <2>1, <2>2 DEF Noted
  <2>4. MonitorPhase = "started" /\ (MonitorPhase)' = "stopped"
    BY <2>2 DEF MonitorPhase
  <2>5. (Len(log) + 1) - 1 = Len(log)
    BY <2>1
  <2> QED
    BY <2>3, <2>4, <2>5 DEF Abstract!Next, Abstract!Stop
<1>3. CASE ~(Start \/ Stop)
  <2>1. UNCHANGED range /\ pc # "error"
    BY <1>3 DEF Monitor, QueryRange, ReadBatch, Aggregate, ResolveFile, Answer, IoFails
  <2>2. CASE pc' = "error"
    BY <2>1, <2>2, ErrorRefines
  <2>3. CASE pc' # "error"
    <3>1. pc \notin {"new", "tracking", "error"} /\ pc' \notin {"new", "tracking", "error"}
      BY <1>3, <2>3 DEF Monitor, QueryRange, ReadBatch, Aggregate, ResolveFile, Answer, IoFails
    <3> QED
      BY <2>1, <3>1, CallStutters
  <2> QED
    BY <2>2, <2>3
<1> QED
  BY <1>1, <1>2, <1>3

\* What main.rs and the packer rely on holds of this monitor (usn.rs:517-606):
\* every answer is made of what had been noted when stop() was called.
THEOREM ImplementsMonitorHolds == Spec => ImplementsMonitor
<1>1. Init => Abstract!Init
  BY DEF Init, Abstract!Init, MonitorPhase, Noted
<1>2. IInv /\ [Next]_vars => IInv'
  BY FileSystemPreserves, MonitorPreserves, StutterPreserves DEF Next
<1>3. IInv /\ IInv' /\ [Next]_vars => [Abstract!Next]_(Abstract!vars)
  <2>1. UNCHANGED vars => UNCHANGED Abstract!vars
    BY DEF vars, journal, range, reading, Abstract!vars, MonitorPhase, Noted
  <2> QED
    BY <2>1, FileSystemRefines, MonitorRefines DEF Next
<1> QED
  BY <1>1, <1>2, <1>3, InductiveInvariant, PTL DEF Spec, ImplementsMonitor, Abstract!Spec

-----------------------------------------------------------------------------
(* What an answer says.                                                    *)

Started == {"tracking", "stopped", "reading", "aggregate", "resolving", "answered"}
Called  == {"resolving", "answered"}

\* The positions since start(), up to stop().
Span == initialUsn .. (IF pc = "tracking" THEN Len(log) ELSE endUsn - 1)

\* A record that makes a flag of a file.
Makes(r, f, x) == r.file = f /\ r.reasons \cap ExcludeMask = {} /\ ReasonsOf[x] \cap r.reasons # {}

\* What happened to a file was recorded by then, in a record that is not
\* excluded, and such a record says nothing else.
Told ==
    pc \in Started =>
        \A f \in plain, x \in Flags : x \in done[f] <=> \E u \in Span : Makes(log[u], f, x)

\* The reasons a file has collected happened to it; none of them excludes the
\* records to come.
Collected ==
    pc = "tracking" =>
        \A f \in plain :
            /\ open[f] \cap ExcludeMask = {}
            /\ \A x \in Flags : ReasonsOf[x] \cap open[f] # {} => x \in done[f]

Histories ==
    /\ done \in [Files -> SUBSET Flags] /\ plain \subseteq Files
    /\ pc = "new" => done = NoIds

NamesApart == \A f, g \in Files : Exists(f) /\ name[f] = name[g] => f = g

OwnKey(f) == [code |-> Resolved, name |-> name[f]]

StandIn(f) == [code |-> outcome[f], name |-> idName[f]]

\* The key of a settled file that is resolved is its own: nothing is there before.
KeysApart ==
    /\ pc \in {"reading", "aggregate"} => paths = NoPaths /\ outcome = AllResolved
    /\ pc \in Called =>
          \A f \in Files \ moved : Exists(f) /\ outcome[f] = Resolved =>
              paths[OwnKey(f)] = IF f \in todo THEN NoFlags ELSE ids[f]
    /\ pc = "answered" => todo = {}

\* The stand-in of an id that did not resolve has its flags, or those of one
\* that shares it; the ids to be resolved have a name in their records.
StandInsKept ==
    pc \in Called =>
        \A f \in Files :
            /\ f \in todo => outcome[f] = Resolved
            /\ f \in todo \/ outcome[f] # Resolved => idName[f] \in BareNames
            /\ outcome[f] # Resolved =>
                  \E g \in Files : /\ outcome[g] = outcome[f] /\ idName[g] = idName[f]
                                   /\ paths[StandIn(f)] = ids[g]

AnswerInv ==
    Histories /\ Told /\ Collected /\ PlainFilesExact /\ NamesApart /\ KeysApart /\ StandInsKept

-----------------------------------------------------------------------------
LEMMA ReasonFlags ==
    ASSUME NEW x \in Flags
    PROVE  /\ "FILE_CREATE" \in ReasonsOf[x] <=> x = "created"
           /\ "RENAME_NEW_NAME" \in ReasonsOf[x] <=> x = "renamed"
<1>1. x \in {"created", "modified", "deleted", "renamed"}
  BY DEF Flags
<1>2. CASE x = "created"  BY <1>2 DEF ReasonsOf
<1>3. CASE x = "modified"  BY <1>3 DEF ReasonsOf
<1>4. CASE x = "deleted"  BY <1>4 DEF ReasonsOf
<1>5. CASE x = "renamed"  BY <1>5 DEF ReasonsOf
<1> QED  BY <1>1, <1>2, <1>3, <1>4, <1>5

\* What is in the journal stays where it is.
LEMMA Grown ==
    ASSUME NEW r \in Seq(LogRecord), log \in Seq(LogRecord), log' = log \o r
    PROVE  /\ Len(log') = Len(log) + Len(r) /\ Len(log) \in Nat /\ Len(r) \in Nat
           /\ \A u \in 1 .. Len(log) : log'[u] = log[u]
           /\ \A i \in 1 .. Len(r) : log'[Len(log) + i] = r[i]
OBVIOUS

\* A step of a file while it is tracked: what is recorded is what happened.
LEMMA ToldGrows ==
    ASSUME IInv, Told, Histories, pc = "tracking", NEW f \in Files, NEW r \in Seq(LogRecord),
           NEW gain \in SUBSET Flags,
           log' = log \o r, \A i \in 1 .. Len(r) : r[i].file = f,
           pc' = pc, initialUsn' = initialUsn, plain' \subseteq plain,
           done' = [done EXCEPT ![f] = @ \cup gain],
           f \in plain' => \A x \in Flags :
               /\ x \in gain => x \in done[f] \/ \E i \in 1 .. Len(r) : Makes(r[i], f, x)
               /\ \A i \in 1 .. Len(r) : Makes(r[i], f, x) => x \in done[f] \cup gain
    PROVE  Told'
<1>1. /\ Len(log') = Len(log) + Len(r) /\ Len(log) \in Nat /\ Len(r) \in Nat
      /\ \A u \in 1 .. Len(log) : log'[u] = log[u]
      /\ \A i \in 1 .. Len(r) : log'[Len(log) + i] = r[i]
  BY Grown DEF IInv, TypeOK, LogRecord
<1>2. initialUsn \in 1 .. (Len(log) + 1)
  BY DEF IInv, RangeInv, NextUsn
<1>3. Span = initialUsn .. Len(log) /\ Span' = initialUsn .. Len(log')
  BY DEF Span
<1>4. \A u \in Span : u \in Span' /\ log'[u] = log[u]
  BY <1>1, <1>2, <1>3
<1>5. \A u \in Span' : u \in Span \/ (u - Len(log) \in 1 .. Len(r) /\ log'[u] = r[u - Len(log)])
  <2> SUFFICES ASSUME NEW u \in Span', u \notin Span
               PROVE  u - Len(log) \in 1 .. Len(r) /\ log'[u] = r[u - Len(log)]
    OBVIOUS
  <2>1. u - Len(log) \in 1 .. Len(r) /\ u = Len(log) + (u - Len(log))
    BY <1>1, <1>2, <1>3
  <2> QED  BY <1>1, <2>1
<1>6. \A i \in 1 .. Len(r) : Len(log) + i \in Span'
  BY <1>1, <1>2, <1>3
<1> SUFFICES ASSUME NEW g \in plain', NEW x \in Flags
             PROVE  x \in done'[g] <=> \E u \in Span' : Makes(log'[u], g, x)
  BY DEF Told, Span
<1>7. g \in plain /\ g \in Files
  BY DEF Histories
<1>8. x \in done[g] <=> \E u \in Span : Makes(log[u], g, x)
  BY <1>7 DEF Told, Started
<1>9. CASE g = f
  <2>1. done'[g] = done[f] \cup gain
    BY <1>9 DEF Histories
  <2>2. ASSUME x \in done'[g] PROVE \E u \in Span' : Makes(log'[u], g, x)
    <3>1. CASE x \in done[g]
      BY <1>4, <1>8, <3>1
    <3>2. CASE \E i \in 1 .. Len(r) : Makes(r[i], f, x)
      BY <1>1, <1>6, <1>9, <3>2
    <3> QED  BY <1>9, <2>1, <2>2, <3>1, <3>2
  <2>3. ASSUME NEW u \in Span', Makes(log'[u], g, x) PROVE x \in done'[g]
    <3>1. CASE u \in Span
      BY <1>4, <1>8, <1>9, <2>1, <2>3, <3>1
    <3>2. CASE u \notin Span
      BY <1>5, <1>9, <2>1, <2>3, <3>2
    <3> QED  BY <3>1, <3>2
  <2> QED  BY <2>2, <2>3
<1>10. CASE g # f
  <2>1. done'[g] = done[g]
    BY <1>7, <1>10 DEF Histories
  <2>2. \A u \in Span' : Makes(log'[u], g, x) => u \in Span
    BY <1>5, <1>10 DEF Makes
  <2> QED  BY <1>4, <1>8, <2>1, <2>2
<1> QED  BY <1>9, <1>10

\* After stop() the records of the range and what happened are settled.
LEMMA ToldStays ==
    ASSUME IInv, Told, pc \in Started \ {"tracking"}, pc' \in (Started \ {"tracking"}) \cup {"error"},
           UNCHANGED <<initialUsn, endUsn, done>>, plain' \subseteq plain,
           \A u \in 1 .. Len(log) : log'[u] = log[u]
    PROVE  Told'
<1>1. Span = initialUsn .. (endUsn - 1) /\ (pc' # "error" => Span' = Span)
  BY DEF Span, Started
<1>2. Span \subseteq 1 .. Len(log)
  BY <1>1, LogLength DEF IInv, RangeInv, Started, NextUsn
<1>3. pc' # "error" => \A f \in plain', x \in Flags :
        x \in done'[f] <=> \E u \in Span' : Makes(log'[u], f, x)
  BY <1>1, <1>2 DEF Told
<1> QED  BY <1>3 DEF Told, Started

-----------------------------------------------------------------------------
(* The file system.                                                        *)

\* One operation on the file f: the records it writes, what it means.
FileStep(f, r, gain) ==
    /\ log' = log \o r /\ \A i \in 1 .. Len(r) : r[i].file = f
    /\ UNCHANGED <<pc, range, answer>>
    /\ plain' \subseteq plain /\ moved \subseteq moved'
    /\ done' = IF pc = "tracking" THEN [done EXCEPT ![f] = @ \cup gain] ELSE done
    /\ \A g \in Files \ {f} : open'[g] = open[g] /\ name'[g] = name[g]
    /\ name'[f] = name[f] \/ (f \in moved' /\ \A g \in Files : name'[f] \in Names => name[g] # name'[f])

\* The records it writes tell what it means, and the reasons it collects too.
Recorded(f, r, gain) ==
    \A x \in Flags :
        /\ x \in gain => x \in done[f] \/ \E i \in 1 .. Len(r) : Makes(r[i], f, x)
        /\ \A i \in 1 .. Len(r) : Makes(r[i], f, x) => x \in done[f] \cup gain
        /\ ReasonsOf[x] \cap open'[f] # {} => x \in done[f] \cup gain

LEMMA FileStepPreserves ==
    ASSUME IInv, AnswerInv, NEW f \in Files, NEW r \in Seq(LogRecord), NEW gain \in SUBSET Flags,
           FileStep(f, r, gain),
           pc = "tracking" /\ f \in plain' => Recorded(f, r, gain) /\ open'[f] \cap ExcludeMask = {}
    PROVE  AnswerInv'
<1> USE DEF FileStep
<1>h. Histories'
  <2>1. done' \in [Files -> SUBSET Flags] /\ plain' \subseteq Files
    BY DEF AnswerInv, Histories
  <2>2. pc' = "new" => done' = NoIds
    BY DEF AnswerInv, Histories
  <2> QED  BY <2>1, <2>2 DEF Histories
<1>d. /\ pc = "tracking" => done'[f] = done[f] \cup gain
      /\ \A g \in Files \ {f} : done'[g] = done[g]
  BY DEF AnswerInv, Histories
<1>1. Told'
  <2>1. CASE pc = "tracking"
    BY <2>1, ToldGrows DEF AnswerInv, Recorded, range
  <2>2. CASE pc \in Started \ {"tracking"}
    <3>1. \A u \in 1 .. Len(log) : log'[u] = log[u]
      BY Grown DEF IInv, TypeOK, LogRecord
    <3> QED  BY <2>2, <3>1, ToldStays DEF AnswerInv, range, Started
  <2>3. CASE pc \notin Started
    BY <2>3 DEF Told
  <2> QED  BY <2>1, <2>2, <2>3
<1>2. Collected'
  <2> SUFFICES ASSUME pc = "tracking", NEW g \in plain'
               PROVE  /\ open'[g] \cap ExcludeMask = {}
                      /\ \A x \in Flags : ReasonsOf[x] \cap open'[g] # {} => x \in done'[g]
    BY DEF Collected
  <2>1. CASE g = f
    BY <1>d, <2>1 DEF Recorded
  <2>2. CASE g # f
    BY <1>d, <2>2 DEF AnswerInv, Collected, Histories
  <2> QED  BY <2>1, <2>2
<1>3. PlainFilesExact'
  BY DEF AnswerInv, PlainFilesExact, answer
<1>4. NamesApart'
  <2> SUFFICES ASSUME NEW g \in Files, NEW h \in Files, name'[g] \in Names, name'[g] = name'[h], g # h
               PROVE  FALSE
    BY DEF NamesApart, Exists
  <2>1. CASE g # f /\ h # f
    BY <2>1 DEF AnswerInv, NamesApart, Exists
  <2>2. CASE g = f
    BY <2>2 DEF AnswerInv, NamesApart, Exists
  <2>3. CASE h = f
    BY <2>3 DEF AnswerInv, NamesApart, Exists
  <2> QED  BY <2>1, <2>2, <2>3
<1>5. KeysApart'
  <2>1. \A g \in Files \ moved' : name'[g] = name[g] /\ g \in Files \ moved
    OBVIOUS
  <2> QED  BY <2>1 DEF AnswerInv, KeysApart, OwnKey, Exists, answer
<1>6. StandInsKept'
  BY DEF AnswerInv, StandInsKept, StandIn, answer
<1> QED  BY <1>h, <1>1, <1>2, <1>3, <1>4, <1>5, <1>6 DEF AnswerInv

LEMMA FileSystemAnswers ==
    ASSUME IInv, AnswerInv, FileSystem
    PROVE  AnswerInv'
<1> USE DEF FsOther
<1>t. /\ log \in Seq(LogRecord) /\ open \in [Files -> SUBSET Reasons]
      /\ name \in [Files -> Names \cup {Unborn, Gone}]
      /\ done \in [Files -> SUBSET Flags] /\ plain \subseteq Files
  BY DEF IInv, AnswerInv, TypeOK, LogRecord, Histories
<1>r. ASSUME NEW f \in Files, NEW reasons \in SUBSET Reasons, NEW n \in Names
      PROVE  Record(f, reasons, n) \in LogRecord /\ Record(f, reasons, n).file = f
             /\ Record(f, reasons, n).reasons = reasons
  BY DEF Record, LogRecord, BareNames
<1>c. ASSUME NEW f \in plain, pc = "tracking"
      PROVE  /\ open[f] \cap ExcludeMask = {}
             /\ \A x \in Flags : ReasonsOf[x] \cap open[f] # {} => x \in done[f]
  BY <1>c DEF AnswerInv, Collected
<1>1. ASSUME NEW f \in Files, NEW n \in Names, CreateFile(f, n) PROVE AnswerInv'
  <2> DEFINE r == <<Record(f, {"FILE_CREATE"}, n)>>
  <2>1. r \in Seq(LogRecord) /\ Len(r) = 1 /\ r[1].file = f /\ r[1].reasons = {"FILE_CREATE"}
    BY <1>r DEF Reasons
  <2> HIDE DEF r
  <2>2. log' = log \o r /\ open'[f] = {"FILE_CREATE"} /\ name'[f] = n
    BY <1>1, <1>t DEF CreateFile, Append2, r
  <2>3. FileStep(f, r, {"created"})
    BY <1>1, <1>t, <2>1, <2>2 DEF CreateFile, Happens, FileStep
  <2>4. Recorded(f, r, {"created"}) /\ open'[f] \cap ExcludeMask = {}
    BY <2>1, <2>2, ReasonFlags DEF Recorded, Makes, ExcludeMask
  <2> QED  BY <2>1, <2>3, <2>4, FileStepPreserves DEF Flags
<1>2. ASSUME NEW f \in Files, NEW n \in Names, RenameFile(f, n) PROVE AnswerInv'
  <2> DEFINE r == <<Record(f, open[f] \cup {"RENAME_OLD_NAME"}, name[f]),
                    Record(f, open[f] \cup {"RENAME_NEW_NAME"}, n)>>
  <2>1. /\ open[f] \cup {"RENAME_OLD_NAME"} \in SUBSET Reasons
        /\ open[f] \cup {"RENAME_NEW_NAME"} \in SUBSET Reasons
        /\ name[f] \in Names
    BY <1>2, <1>t DEF RenameFile, Exists, Reasons
  <2>2. /\ r \in Seq(LogRecord) /\ Len(r) = 2 /\ r[1].file = f /\ r[2].file = f
        /\ r[1].reasons = open[f] \cup {"RENAME_OLD_NAME"}
        /\ r[2].reasons = open[f] \cup {"RENAME_NEW_NAME"}
    BY <2>1, <1>r
  <2> HIDE DEF r
  <2>3. log' = log \o r /\ open'[f] = open[f] \cup {"RENAME_NEW_NAME"} /\ name'[f] = n
    BY <1>2, <1>t DEF RenameFile, Append2, r
  <2>4. FileStep(f, r, {"renamed"})
    BY <1>2, <1>t, <2>2, <2>3 DEF RenameFile, Happens, FileStep
  <2>5. ASSUME pc = "tracking", f \in plain'
        PROVE  Recorded(f, r, {"renamed"}) /\ open'[f] \cap ExcludeMask = {}
    <3>1. /\ open[f] \cap ExcludeMask = {}
          /\ \A x \in Flags : ReasonsOf[x] \cap open[f] # {} => x \in done[f]
      BY <1>2, <1>c, <2>5 DEF RenameFile
    <3>2. open'[f] \cap ExcludeMask = {} /\ r[1].reasons \cap ExcludeMask # {}
      BY <2>2, <2>3, <3>1 DEF ExcludeMask
    <3>3. ASSUME NEW x \in Flags
          PROVE  /\ Makes(r[2], f, x) <=> x = "renamed" \/ ReasonsOf[x] \cap open[f] # {}
                 /\ ReasonsOf[x] \cap open'[f] # {} => x = "renamed" \/ ReasonsOf[x] \cap open[f] # {}
      BY <2>2, <2>3, <3>2, ReasonFlags DEF Makes
    <3>4. ASSUME NEW x \in Flags PROVE ~Makes(r[1], f, x)
      BY <3>2 DEF Makes
    <3> QED  BY <2>2, <3>1, <3>2, <3>3, <3>4 DEF Recorded
  <2> QED  BY <2>2, <2>4, <2>5, FileStepPreserves DEF Flags
<1>3. ASSUME NEW f \in Files, NEW reason \in Touches, TouchFile(f, reason) PROVE AnswerInv'
  <2> DEFINE gain == {x \in Flags : reason \in ReasonsOf[x]}
             r == IF reason \in open[f] THEN <<>>
                  ELSE <<Record(f, open[f] \cup {reason}, name[f])>>
  <2>1. reason \in Reasons /\ (reason \in ExcludeMask => reason = "REPARSE_POINT_CHANGE")
    BY ConstantsAssumption DEF Reasons, ExcludeMask
  <2>2. open[f] \cup {reason} \in SUBSET Reasons /\ name[f] \in Names
    BY <1>3, <1>t, <2>1 DEF TouchFile, Exists
  <2>3. /\ r \in Seq(LogRecord)
        /\ reason \in open[f] => Len(r) = 0 /\ log \o r = log
        /\ reason \notin open[f] => Len(r) = 1 /\ r[1].file = f
                                  /\ r[1].reasons = open[f] \cup {reason}
    BY <1>t, <1>r, <2>2
  <2>4. log' = log \o r
    BY <1>3, <2>3 DEF TouchFile, Append2
  <2> HIDE DEF r
  <2>5. /\ open'[f] = open[f] \cup {reason} /\ name' = name /\ plain' \subseteq plain
        /\ f \in plain' => f \in plain /\ reason # "REPARSE_POINT_CHANGE"
    BY <1>3, <1>t DEF TouchFile
  <2>6. FileStep(f, r, gain)
    BY <1>3, <1>t, <2>3, <2>4, <2>5 DEF TouchFile, Happens, FileStep
  <2>7. ASSUME pc = "tracking", f \in plain'
        PROVE  Recorded(f, r, gain) /\ open'[f] \cap ExcludeMask = {}
    <3>1. /\ open[f] \cap ExcludeMask = {}
          /\ \A x \in Flags : ReasonsOf[x] \cap open[f] # {} => x \in done[f]
      BY <1>c, <2>5, <2>7
    <3>2. open'[f] \cap ExcludeMask = {}
      BY <2>1, <2>5, <2>7, <3>1
    <3>3. ASSUME NEW x \in Flags
          PROVE  ReasonsOf[x] \cap (open[f] \cup {reason}) # {}
                     <=> x \in gain \/ ReasonsOf[x] \cap open[f] # {}
      OBVIOUS
    <3> HIDE DEF gain
    <3>4. CASE reason \in open[f]
      <4>1. \A x \in Flags : x \in gain => x \in done[f]
        BY <3>1, <3>4 DEF gain
      <4> QED  BY <2>3, <2>5, <3>1, <3>2, <3>3, <3>4, <4>1 DEF Recorded
    <3>5. CASE reason \notin open[f]
      <4>1. \A x \in Flags : Makes(r[1], f, x) <=> x \in gain \/ ReasonsOf[x] \cap open[f] # {}
        BY <2>3, <2>5, <3>2, <3>3, <3>5 DEF Makes
      <4> QED  BY <2>3, <2>5, <3>1, <3>2, <3>3, <3>5, <4>1 DEF Recorded
    <3> QED  BY <3>4, <3>5
  <2> QED  BY <2>3, <2>6, <2>7, FileStepPreserves
<1>4. ASSUME NEW f \in Files, CloseFile(f) PROVE AnswerInv'
  <2> DEFINE r == <<Record(f, open[f] \cup {"CLOSE"}, name[f])>>
  <2>1. open[f] \cup {"CLOSE"} \in SUBSET Reasons /\ name[f] \in Names
    BY <1>4, <1>t DEF CloseFile, Exists, Reasons
  <2>2. /\ r \in Seq(LogRecord) /\ Len(r) = 1 /\ r[1].file = f
        /\ r[1].reasons \cap ExcludeMask # {}
    BY <2>1, <1>r DEF ExcludeMask
  <2> HIDE DEF r
  <2>3. log' = log \o r /\ open'[f] = {}
    BY <1>4, <1>t DEF CloseFile, Append2, r
  <2>4. FileStep(f, r, {})
    BY <1>4, <1>t, <2>2, <2>3 DEF CloseFile, history, FileStep
  <2>5. Recorded(f, r, {})
    BY <2>2, <2>3 DEF Recorded, Makes
  <2> QED  BY <2>2, <2>3, <2>4, <2>5, FileStepPreserves
<1>5. ASSUME NEW f \in Files, DeleteFile(f) PROVE AnswerInv'
  <2> DEFINE r == <<Record(f, open[f] \cup {"FILE_DELETE", "CLOSE"}, name[f])>>
  <2>1. open[f] \cup {"FILE_DELETE", "CLOSE"} \in SUBSET Reasons /\ name[f] \in Names
    BY <1>5, <1>t DEF DeleteFile, Exists, Reasons
  <2>2. /\ r \in Seq(LogRecord) /\ Len(r) = 1 /\ r[1].file = f
        /\ r[1].reasons \cap ExcludeMask # {}
    BY <2>1, <1>r DEF ExcludeMask
  <2> HIDE DEF r
  <2>3. log' = log \o r /\ open'[f] = {} /\ name'[f] \notin Names
    BY <1>5, <1>t, ConstantsAssumption DEF DeleteFile, Append2, r
  <2>4. FileStep(f, r, {})
    BY <1>5, <1>t, <2>2, <2>3 DEF DeleteFile, Happens, FileStep
  <2>5. Recorded(f, r, {})
    BY <2>2, <2>3 DEF Recorded, Makes
  <2> QED  BY <2>2, <2>3, <2>4, <2>5, FileStepPreserves
<1>6. CASE TrimJournal
  BY <1>6 DEF TrimJournal, AnswerInv, Histories, Told, Span, Collected, PlainFilesExact,
              NamesApart, KeysApart, StandInsKept, StandIn, OwnKey, Exists, range, answer, history
<1> QED
  BY <1>1, <1>2, <1>3, <1>4, <1>5, <1>6 DEF FileSystem

-----------------------------------------------------------------------------
(* The monitor.                                                            *)

\* The reading leaves what it is about as it is.
LEMMA SameTold ==
    ASSUME IInv, AnswerInv, pc \in Started \ {"tracking"},
           pc' \in (Started \ {"tracking"}) \cup {"error"}, UNCHANGED <<journal, range, history>>
    PROVE  Histories' /\ Told' /\ Collected' /\ NamesApart'
<1>1. Told'
  BY ToldStays DEF AnswerInv, journal, range, history
<1>2. Histories' /\ Collected' /\ NamesApart'
  BY DEF AnswerInv, Histories, Collected, NamesApart, Exists, journal, history, Started
<1> QED  BY <1>1, <1>2

\* The last of some positions of the journal.
LEMMA HasLast ==
    ASSUME NEW n \in Nat, NEW S, S \subseteq 1 .. n, S # {}
    PROVE  \E u \in S : \A v \in S : v <= u
<1> DEFINE T == {k \in Nat : n - k \in S}
<1>1. T \subseteq Nat
  OBVIOUS
<1>2. \A u \in S : n - u \in T /\ n - (n - u) = u
  OBVIOUS
<1>3. T # {}
  BY <1>2
<1> HIDE DEF T
<1>4. PICK k \in T : \A m \in T : ~ (<<m, k>> \in OpToRel(<, Nat))
  BY <1>1, <1>3, NatLessThanWellFounded, WFMin
<1>5. \A m \in T : ~ (m < k)
  BY <1>1, <1>4 DEF OpToRel
<1>6. n - k \in S /\ k \in Nat
  BY <1>4 DEF T
<1>7. \A v \in S : v <= n - k
  BY <1>2, <1>5, <1>6
<1> QED  BY <1>6, <1>7

LEMMA AggregateAnswers ==
    ASSUME IInv, AnswerInv, Aggregate
    PROVE  AnswerInv'
<1>1. /\ pc = "aggregate" /\ pc' = "resolving"
      /\ UNCHANGED <<journal, range, reading, paths, outcome, history>>
      /\ ids' = [f \in Files |-> UNION {GetMeta(log[u].reasons) : u \in Counted(f)}]
      /\ todo' = {f \in Files : Counted(f) # {}}
  BY DEF Aggregate
<1>2. Histories' /\ Told' /\ Collected' /\ NamesApart'
  BY <1>1, SameTold DEF Started
<1>3. records = Span
  BY <1>1 DEF IInv, RangeInv, RangeExact, Span
<1>4. PlainFilesExact'
  <2> SUFFICES ASSUME NEW f \in plain PROVE ids'[f] = done[f] \cap Options
    BY <1>1 DEF PlainFilesExact, history
  <2>1. f \in Files /\ done[f] \subseteq Flags /\ Options \subseteq Flags
    BY ConstantsAssumption DEF AnswerInv, Histories
  <2>2. ids'[f] = UNION {GetMeta(log[u].reasons) : u \in Counted(f)}
    BY <1>1, <2>1
  <2>3. ASSUME NEW x \in ids'[f] PROVE x \in done[f] \cap Options
    <3>1. PICK u \in Counted(f) : x \in GetMeta(log[u].reasons)
      BY <2>2, <2>3
    <3>2. x \in Options /\ u \in Span /\ Makes(log[u], f, x)
      BY <1>3, <3>1 DEF Counted, GetMeta, Makes
    <3> QED  BY <1>1, <2>1, <3>2 DEF AnswerInv, Told, Started
  <2>4. ASSUME NEW x \in done[f] \cap Options PROVE x \in ids'[f]
    <3>1. PICK u \in Span : Makes(log[u], f, x)
      BY <1>1, <2>1, <2>4 DEF AnswerInv, Told, Started
    <3>2. x \in GetMeta(log[u].reasons)
      BY <3>1 DEF GetMeta, Makes
    <3>3. u \in Counted(f)
      BY <1>3, <3>1, <3>2 DEF Counted, Makes, IsEmpty, NoFlags
    <3> QED  BY <2>2, <3>2, <3>3
  <2> QED  BY <2>3, <2>4
<1>5. KeysApart'
  <2> SUFFICES ASSUME NEW f \in Files, name[f] \in Names
               PROVE  paths'[OwnKey(f)] = IF f \in todo' THEN NoFlags ELSE ids'[f]
    BY <1>1 DEF KeysApart, OwnKey, Exists, journal, Called
  <2>1. paths'[OwnKey(f)] = NoFlags
    BY <1>1 DEF AnswerInv, KeysApart, NoPaths, OwnKey, PathKeys
  <2>2. f \notin todo' => ids'[f] = {}
    <3> SUFFICES ASSUME f \notin todo' PROVE ids'[f] = {}
      OBVIOUS
    <3>1. Counted(f) = {}
      BY <1>1
    <3>2. ids'[f] = UNION {GetMeta(log[u].reasons) : u \in Counted(f)}
      BY <1>1
    <3> QED  BY <3>1, <3>2
  <2> QED  BY <2>1, <2>2 DEF NoFlags
<1>6. StandInsKept'
  <2>1. outcome' = AllResolved
    BY <1>1 DEF AnswerInv, KeysApart
  <2>2. ASSUME NEW f \in todo' PROVE idName'[f] \in BareNames
    <3>1. f \in Files /\ Counted(f) # {}
      BY <1>1, <2>2
    <3>2. Counted(f) \subseteq 1 .. Len(log)
      BY DEF Counted, IInv, TypeOK
    <3>3. \E u \in Counted(f) : \A v \in Counted(f) : v <= u
      BY <3>1, <3>2, LogLength, HasLast DEF IInv
    <3>4. PICK u \in Counted(f) : idName'[f] = log[u].name
      BY <3>1, <3>3 DEF Aggregate
    <3>5. log[u] \in LogRecord
      <4>1. log \in Seq(LogRecord)
        BY DEF IInv, TypeOK, LogRecord
      <4> QED  BY <3>2, <4>1
    <3> QED  BY <3>4, <3>5 DEF LogRecord
  <2> QED  BY <2>1, <2>2 DEF StandInsKept, AllResolved
<1> QED  BY <1>2, <1>4, <1>5, <1>6 DEF AnswerInv

LEMMA ResolveFileAnswers ==
    ASSUME IInv, AnswerInv, NEW f \in Files, ResolveFile(f)
    PROVE  AnswerInv'
<1>1. /\ pc = "resolving" /\ pc' = "resolving" /\ f \in todo /\ todo' = todo \ {f}
      /\ UNCHANGED <<journal, range, ids, idName, history>>
  BY DEF ResolveFile
<1>p. PICK code \in Codes \cup {Resolved} :
          /\ code = Resolved => Exists(f)
          /\ outcome' = [outcome EXCEPT ![f] = code]
          /\ paths' = [paths EXCEPT ![PathKey(f, code)] = ids[f]]
  <2>1. CASE Exists(f)  BY <2>1 DEF ResolveFile
  <2>2. CASE ~Exists(f)
    <3>1. Resolved \notin Codes
      BY ConstantsAssumption
    <3> QED  BY <2>2, <3>1 DEF ResolveFile
  <2> QED  BY <2>1, <2>2
<1>o. outcome'[f] = code /\ \A g \in Files \ {f} : outcome'[g] = outcome[g]
  BY <1>p DEF IInv, TypeOK
<1>2. Histories' /\ Told' /\ Collected' /\ NamesApart'
  BY <1>1, SameTold DEF Started
<1>3. PlainFilesExact'
  BY <1>1 DEF AnswerInv, PlainFilesExact, history
<1>4. KeysApart'
  <2> SUFFICES ASSUME NEW g \in Files \ moved, name[g] \in Names, outcome'[g] = Resolved
               PROVE  paths'[OwnKey(g)] = IF g \in todo' THEN NoFlags ELSE ids[g]
    BY <1>1 DEF KeysApart, OwnKey, Exists, journal, history, Called
  <2>1. OwnKey(g) \in DOMAIN paths
    BY DEF IInv, TypeOK, OwnKey, PathKeys
  <2>2. CASE f = g
    <3>1. PathKey(f, code) = OwnKey(g)
      BY <1>o, <2>2 DEF PathKey, OwnKey
    <3> QED  BY <1>1, <1>p, <2>1, <2>2, <3>1
  <2>3. CASE f # g
    <3>1. paths[OwnKey(g)] = IF g \in todo THEN NoFlags ELSE ids[g]
      BY <1>1, <1>o, <2>3 DEF AnswerInv, KeysApart, Exists, Called
    <3>2. PathKey(f, code) # OwnKey(g)
      <4>1. CASE code = Resolved
        <5>1. name[f] # name[g]
          BY <1>p, <2>3, <4>1 DEF AnswerInv, NamesApart, Exists
        <5> QED  BY <4>1, <5>1 DEF PathKey, OwnKey
      <4>2. CASE code # Resolved
        BY <4>2 DEF PathKey, OwnKey
      <4> QED  BY <4>1, <4>2
    <3> QED  BY <1>1, <1>p, <2>1, <2>3, <3>1, <3>2
  <2> QED  BY <2>2, <2>3
<1>5. StandInsKept'
  <2> SUFFICES ASSUME NEW h \in Files
               PROVE  /\ h \in todo' => outcome'[h] = Resolved
                      /\ h \in todo' \/ outcome'[h] # Resolved => idName[h] \in BareNames
                      /\ outcome'[h] # Resolved =>
                            \E g \in Files : /\ outcome'[g] = outcome'[h] /\ idName[g] = idName[h]
                                             /\ paths'[StandIn(h)'] = ids[g]
    BY <1>1 DEF StandInsKept, StandIn
  <2>1. /\ h \in todo => outcome[h] = Resolved
        /\ h \in todo \/ outcome[h] # Resolved => idName[h] \in BareNames
    BY <1>1 DEF AnswerInv, StandInsKept, Called
  <2>2. /\ h \in todo' => outcome'[h] = Resolved
        /\ h \in todo' \/ outcome'[h] # Resolved => idName[h] \in BareNames
    <3>1. CASE h = f  BY <1>1, <2>1, <3>1
    <3>2. CASE h # f  BY <1>1, <1>o, <2>1, <3>2
    <3> QED  BY <3>1, <3>2
  <2>3. ASSUME outcome'[h] # Resolved
        PROVE  \E g \in Files : /\ outcome'[g] = outcome'[h] /\ idName[g] = idName[h]
                                /\ paths'[StandIn(h)'] = ids[g]
    <3>1. StandIn(h)' = [code |-> outcome'[h], name |-> idName[h]]
      BY <1>1 DEF StandIn
    <3>2. CASE PathKey(f, code) = StandIn(h)'
      <4>1. code # Resolved /\ code = outcome'[h] /\ idName[f] = idName[h]
        <5>1. CASE code = Resolved
          BY <2>3, <3>1, <3>2, <5>1 DEF PathKey
        <5>2. CASE code # Resolved
          BY <3>1, <3>2, <5>2 DEF PathKey
        <5> QED  BY <5>1, <5>2
      <4>2. idName[f] \in BareNames
        BY <1>1 DEF AnswerInv, StandInsKept, Called
      <4>3. PathKey(f, code) \in DOMAIN paths
        BY <1>p, <4>1, <4>2 DEF PathKey, PathKeys, IInv, TypeOK
      <4> QED  BY <1>o, <1>p, <3>2, <4>1, <4>3
    <3>3. CASE PathKey(f, code) # StandIn(h)'
      <4>1. h # f
        BY <1>o, <2>3, <3>1, <3>3 DEF PathKey
      <4>2. PICK g \in Files : /\ outcome[g] = outcome[h] /\ idName[g] = idName[h]
                              /\ paths[StandIn(h)] = ids[g]
        BY <1>1, <1>o, <2>3, <4>1 DEF AnswerInv, StandInsKept, Called
      <4>3. g # f
        <5>1. outcome[f] = Resolved
          BY <1>1 DEF AnswerInv, StandInsKept, Called
        <5> QED  BY <1>o, <2>3, <4>1, <4>2, <5>1
      <4>4. StandIn(h)' = StandIn(h)
        BY <1>o, <3>1, <4>1 DEF StandIn
      <4>5. paths'[StandIn(h)] = paths[StandIn(h)]
        <5>1. StandIn(h) \in PathKeys
          <6>1. outcome[h] \in Codes
            BY <1>o, <2>3, <4>1 DEF IInv, TypeOK
          <6>2. idName[h] \in BareNames
            BY <2>2, <2>3
          <6> QED  BY <6>1, <6>2 DEF StandIn, PathKeys
        <5> QED  BY <1>p, <3>3, <4>4, <5>1 DEF IInv, TypeOK
      <4> QED  BY <1>o, <4>1, <4>2, <4>3, <4>4, <4>5
    <3> QED  BY <3>2, <3>3
  <2> QED  BY <2>2, <2>3
<1> QED  BY <1>2, <1>3, <1>4, <1>5 DEF AnswerInv

LEMMA MonitorAnswers ==
    ASSUME IInv, AnswerInv, Monitor
    PROVE  AnswerInv'
<1>1. CASE Start
  <2>1. /\ pc = "new" /\ pc' = "tracking" /\ UNCHANGED <<journal, done>>
        /\ initialUsn' = NextUsn /\ plain' = {f \in Files : open[f] = {}}
    BY <1>1 DEF Start
  <2>2. Span' = {}
    BY <2>1, LogLength DEF Span, IInv, NextUsn, journal
  <2>3. \A f \in Files : done[f] = {} /\ done'[f] = {}
    BY <2>1 DEF AnswerInv, Histories, NoIds, NoFlags
  <2>4. Histories' /\ Told' /\ Collected'
    BY <2>1, <2>2, <2>3 DEF AnswerInv, Histories, Told, Collected, journal
  <2> QED  BY <2>1, <2>4 DEF AnswerInv, PlainFilesExact, NamesApart, KeysApart, StandInsKept, Exists, journal, Called
<1>2. CASE Stop
  <2>1. /\ pc = "tracking" /\ pc' = "stopped" /\ UNCHANGED <<journal, initialUsn, done, plain>>
        /\ endUsn' = NextUsn
    BY <1>2 DEF Stop
  <2>2. Span' = Span
    BY <2>1, LogLength DEF Span, IInv, NextUsn, journal
  <2>3. Histories' /\ Told' /\ Collected'
    BY <2>1, <2>2 DEF AnswerInv, Histories, Told, Collected, journal, Started
  <2> QED  BY <2>1, <2>3 DEF AnswerInv, PlainFilesExact, NamesApart, KeysApart, StandInsKept, Exists, journal, Called
<1>3. CASE QueryRange
  <2>1. /\ pc \in Started \ {"tracking"} /\ pc' \in {"error", "reading", "aggregate"}
        /\ UNCHANGED <<journal, range, history>> /\ paths' = NoPaths
        /\ outcome' = AllResolved
    BY <1>3 DEF QueryRange, Started
  <2>2. Histories' /\ Told' /\ Collected' /\ NamesApart'
    BY <2>1, SameTold DEF Started
  <2> QED  BY <2>1, <2>2 DEF AnswerInv, PlainFilesExact, KeysApart, StandInsKept, Called
<1>4. CASE ReadBatch
  <2>1. /\ pc = "reading" /\ pc' \in {"error", "reading", "aggregate"}
        /\ UNCHANGED <<journal, range, history, paths, outcome>>
    BY <1>4 DEF ReadBatch, answer
  <2>2. Histories' /\ Told' /\ Collected' /\ NamesApart'
    BY <2>1, SameTold DEF Started
  <2> QED  BY <2>1, <2>2 DEF AnswerInv, PlainFilesExact, KeysApart, StandInsKept, Called
<1>5. CASE Aggregate
  BY <1>5, AggregateAnswers
<1>6. ASSUME NEW f \in Files, ResolveFile(f) PROVE AnswerInv'
  BY <1>6, ResolveFileAnswers
<1>7. CASE Answer
  <2>1. /\ pc = "resolving" /\ pc' = "answered" /\ todo = {}
        /\ UNCHANGED <<journal, range, answer, history>>
    BY <1>7 DEF Answer
  <2>2. Histories' /\ Told' /\ Collected' /\ NamesApart'
    BY <2>1, SameTold DEF Started
  <2> QED  BY <2>1, <2>2 DEF AnswerInv, PlainFilesExact, KeysApart, StandInsKept, StandIn, OwnKey, Exists, Called,
                             journal, answer, history
<1>8. CASE IoFails
  BY <1>8 DEF IoFails, AnswerInv, Histories, Told, Started, Collected, PlainFilesExact,
              NamesApart, KeysApart, StandInsKept, Called, Exists, journal, history
<1> QED
  BY <1>1, <1>2, <1>3, <1>4, <1>5, <1>6, <1>7, <1>8 DEF Monitor

LEMMA StutterAnswers ==
    ASSUME AnswerInv, UNCHANGED vars
    PROVE  AnswerInv'
BY DEF AnswerInv, Histories, Told, Span, Collected, PlainFilesExact, NamesApart, KeysApart,
       StandInsKept, StandIn, OwnKey, Exists, vars, journal, range, answer, history

LEMMA InitAnswers == Init => AnswerInv
<1> SUFFICES ASSUME Init PROVE AnswerInv
  OBVIOUS
<1>1. pc = "new" /\ name = InitialName /\ done = NoIds /\ plain = {}
  BY DEF Init
<1>2. Histories
  BY <1>1 DEF Histories, NoIds, NoFlags
<1>3. NamesApart
  BY <1>1, ConstantsAssumption DEF NamesApart, Exists
<1> QED
  BY <1>1, <1>2, <1>3 DEF AnswerInv, Told, Started, Collected, PlainFilesExact, KeysApart, StandInsKept, Called

\* What an answer says, call after call.
THEOREM AnswersInductive == Spec => []AnswerInv
<1>1. IInv /\ AnswerInv /\ [Next]_vars => AnswerInv'
  BY FileSystemAnswers, MonitorAnswers, StutterAnswers DEF Next
<1> QED
  BY <1>1, InitAnswers, InductiveInvariant, PTL DEF Spec

\* The flags of a file that was closed at start() are what happened to it,
\* for every sequence of operations on every number of files.
THEOREM PlainFilesAreExact == Spec => []PlainFilesExact
<1>1. AnswerInv => PlainFilesExact
  BY DEF AnswerInv
<1> QED
  BY <1>1, AnswersInductive, PTL

\* A file that stays where it is and is resolved keeps its entry, in whatever
\* order the ids are resolved and whatever becomes of the others; one that is
\* not resolved has an entry under its bare name, its own unless shared.
THEOREM SettledPathsAreExact == Spec => []SettledPathsExact
<1>1. AnswerInv => SettledPathsExact
  BY DEF AnswerInv, KeysApart, StandInsKept, StandIn, SettledPathsExact, OwnKey, Called
<1> QED
  BY <1>1, AnswersInductive, PTL
-----------------------------------------------------------------------------
(* The question asked again.                                               *)

Stopped == pc \in {"stopped", "reading", "aggregate", "resolving", "answered"}

\* What any call from now on says of the flags, in whatever pieces it reads.
SettledIds ==
    [f \in Files |->
        UNION {GetMeta(log[u].reasons) :
                  u \in {v \in initialUsn .. (endUsn - 1) :
                            /\ log[v].file = f
                            /\ ~IsEmpty(GetMeta(log[v].reasons))
                            /\ log[v].reasons \cap ExcludeMask = {}}}]

IdsSettled == pc \in Called => ids = SettledIds

\* The file system leaves the call alone, and the records where they are.
LEMMA FileSystemKeeps ==
    ASSUME IInv, FileSystem
    PROVE  /\ UNCHANGED <<pc, range, reading, answer>>
           /\ \A u \in 1 .. Len(log) : log'[u] = log[u]
<1>1. log \in Seq(LogRecord)
  BY DEF IInv, TypeOK, LogRecord
<1>2. ASSUME NEW a, Append2(<<a>>) PROVE \A u \in 1 .. Len(log) : log'[u] = log[u]
  BY <1>1, <1>2 DEF Append2
<1>3. ASSUME NEW a, NEW b, Append2(<<a, b>>) PROVE \A u \in 1 .. Len(log) : log'[u] = log[u]
  BY <1>1, <1>3 DEF Append2
<1> QED
  BY <1>2, <1>3 DEF FileSystem, CreateFile, TouchFile, RenameFile, CloseFile, DeleteFile, TrimJournal,
     FsOther, answer, range, reading

LEMMA SettledKept ==
    ASSUME IInv, Stopped, UNCHANGED range,
           \A u \in 1 .. Len(log) : log'[u] = log[u]
    PROVE  SettledIds' = SettledIds
<1>1. initialUsn .. (endUsn - 1) \subseteq 1 .. Len(log)
  BY LogLength DEF IInv, RangeInv, Stopped, NextUsn
<1>2. UNCHANGED <<initialUsn, endUsn>>
  BY DEF range
<1>3. ASSUME NEW f \in Files
      PROVE  {v \in initialUsn .. (endUsn - 1) :
                  /\ log'[v].file = f
                  /\ ~IsEmpty(GetMeta(log'[v].reasons))
                  /\ log'[v].reasons \cap ExcludeMask = {}}
             = {v \in initialUsn .. (endUsn - 1) :
                  /\ log[v].file = f
                  /\ ~IsEmpty(GetMeta(log[v].reasons))
                  /\ log[v].reasons \cap ExcludeMask = {}}
  BY <1>1
<1> QED
  BY <1>1, <1>2, <1>3 DEF SettledIds

\* A monitor that is stopped stays so, until a call fails.
LEMMA StoppedStays ==
    ASSUME IInv, [Next]_vars, Stopped
    PROVE  pc' = "error" \/ (Stopped' /\ SettledIds' = SettledIds)
<1>1. CASE FileSystem
  BY <1>1, FileSystemKeeps, SettledKept DEF Stopped
<1>2. CASE Monitor
  <2>1. UNCHANGED <<log, range>> /\ (pc' = "error" \/ Stopped')
    BY <1>2 DEF Monitor, Start, Stop, QueryRange, ReadBatch, Aggregate, ResolveFile, Answer, IoFails,
       Stopped, journal
  <2> QED
    BY <2>1, SettledKept
<1>3. CASE UNCHANGED vars
  BY <1>3, SettledKept DEF vars, journal, Stopped
<1> QED
  BY <1>1, <1>2, <1>3 DEF Next

LEMMA IdsSettledStays ==
    ASSUME IInv, IdsSettled, [Next]_vars
    PROVE  IdsSettled'
<1>1. CASE Aggregate
  <2>1. records = initialUsn .. (endUsn - 1) /\ UNCHANGED <<log, range>>
    BY <1>1 DEF Aggregate, IInv, RangeInv, RangeExact, journal
  <2>2. ids' = SettledIds
    BY <1>1, <2>1 DEF Aggregate, SettledIds, Counted
  <2>3. Stopped
    BY <1>1 DEF Aggregate, Stopped
  <2> QED
    BY <2>1, <2>2, <2>3, SettledKept DEF IdsSettled
<1>2. CASE ~Aggregate
  <2> SUFFICES ASSUME pc' \in Called PROVE pc \in Called /\ ids' = ids
    BY StoppedStays DEF IdsSettled, Called, Stopped
  <2>1. CASE FileSystem
    BY <2>1, FileSystemKeeps DEF answer
  <2>2. CASE Monitor
    BY <1>2, <2>2 DEF Monitor, Start, Stop, QueryRange, ReadBatch, ResolveFile, Answer, IoFails,
       Called, answer
  <2>3. CASE UNCHANGED vars
    BY <2>3 DEF vars, answer
  <2> QED
    BY <2>1, <2>2, <2>3 DEF Next
<1> QED
  BY <1>1, <1>2

\* get_changed_files, asked twice, gives each file id the same flags, however the
\* journal and the files have changed in between (usn.rs:536-604): the packer
\* writes its metadata from one answer and its entries from another.
THEOREM AnswersAgree ==
    ASSUME NEW flags
    PROVE  Spec => [](pc \in Called /\ ids = flags => [](pc \in Called => ids = flags))
<1> DEFINE Fixed == pc = "error" \/ (Stopped /\ SettledIds = flags)
<1>1. Init => IdsSettled
  BY DEF Init, IdsSettled, Called
<1>2. IInv /\ IdsSettled /\ [Next]_vars => IdsSettled'
  BY IdsSettledStays
<1>3. IInv /\ Fixed /\ [Next]_vars => Fixed'
  <2> SUFFICES ASSUME IInv, pc = "error", [Next]_vars PROVE pc' = "error"
    BY StoppedStays
  <2> QED
    BY DEF Next, FileSystem, CreateFile, TouchFile, RenameFile, CloseFile, DeleteFile, TrimJournal, FsOther,
       Monitor, Start, Stop, QueryRange, ReadBatch, Aggregate, ResolveFile, Answer, IoFails, vars
<1>4. IdsSettled /\ pc \in Called /\ ids = flags => Fixed
  BY DEF IdsSettled, Called, Stopped
<1>5. IdsSettled /\ Fixed => (pc \in Called => ids = flags)
  BY DEF IdsSettled, Called, Stopped
<1> QED
  BY <1>1, <1>2, <1>3, <1>4, <1>5, InductiveInvariant, PTL DEF Spec

-----------------------------------------------------------------------------
(* A call gets on.                                                         *)

\* Every turn of the loop of read_range moves the cursor on towards an end that
\* stays, every turn of the loop over ids leaves one id less, and what happens
\* on the disk meanwhile takes none of it back.
CallAdvances ==
    /\ pc = "reading" /\ Monitor =>
          pc' # "reading" \/ (rangeEnd' = rangeEnd /\ cursor' \in (cursor + 1) .. (rangeEnd - 1))
    /\ pc = "resolving" /\ Monitor =>
          pc' # "resolving" \/ \E f \in todo : todo' = todo \ {f}
    /\ pc \in {"reading", "aggregate", "resolving"} /\ FileSystem => UNCHANGED <<pc, reading, todo>>

LEMMA BatchAdvances ==
    ASSUME IInv, ReadBatch
    PROVE  pc' # "reading" \/ (rangeEnd' = rangeEnd /\ cursor' \in (cursor + 1) .. (rangeEnd - 1))
<1>1. /\ Len(log) \in Nat /\ NextUsn = Len(log) + 1 /\ endUsn \in initialUsn .. NextUsn
      /\ initialUsn \in 1 .. NextUsn
      /\ rangeEnd = endUsn /\ cursor \in initialUsn .. (rangeEnd - 1)
  BY LogLength DEF IInv, RangeInv, ReadBatch, NextUsn
<1>2. Lesser(cursor + Batch, NextUsn) \in (cursor + 1) .. NextUsn
  BY <1>1, ConstantsAssumption DEF Lesser
<1> QED
  BY <1>1, <1>2 DEF ReadBatch

\* A call of get_changed_files reads no record twice and resolves no id twice,
\* and neither the growing journal nor the files keep it going (usn.rs:376-393 and 553-601).
THEOREM CallsAdvance == Spec => [][CallAdvances]_vars
<1>1. IInv /\ [Next]_vars => [CallAdvances]_vars
  <2> SUFFICES ASSUME IInv, Next PROVE CallAdvances
    OBVIOUS
  <2>1. pc = "reading" /\ Monitor => ReadBatch \/ pc' = "error"
    BY DEF Monitor, Start, Stop, QueryRange, Aggregate, ResolveFile, Answer, IoFails
  <2>2. pc = "resolving" /\ Monitor => pc' # "resolving" \/ \E f \in todo : todo' = todo \ {f}
    BY DEF Monitor, Start, Stop, QueryRange, ReadBatch, Aggregate, ResolveFile, Answer, IoFails
  <2>3. FileSystem => UNCHANGED <<pc, reading, todo>>
    BY FileSystemKeeps DEF answer
  <2> QED
    BY <2>1, <2>2, <2>3, BatchAdvances DEF CallAdvances
<1> QED
  BY <1>1, InductiveInvariant, PTL DEF Spec
=============================================================================
