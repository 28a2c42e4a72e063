---------------------------- MODULE RecordParser ----------------------------
(***************************************************************************)
(* The two parse_records: of the notifications of ReadDirectoryChangesExW  *)
(* in src/monitor/winapi.rs and of a journal buffer in src/monitor/usn.rs. *)
(* One action is a turn of the loop, with all its checks.  A buffer is its *)
(* length and the header that is found at each offset; in a buffer that    *)
(* nobody laid out a header may be anything.                               *)
(***************************************************************************)
EXTENDS Integers

CONSTANTS
    NotificationSize,   \* size_of FILE_NOTIFY_EXTENDED_INFORMATION, padded
    NameOffset,         \* offset_of its FileName
    HeaderSize,         \* size_of USN_RECORD_COMMON_HEADER
    RecordSize,         \* size_of USN_RECORD_V2, V3 and V4
    ExtentsOffset,      \* offset_of Extents in USN_RECORD_V4
    CharSize, ExtentSize, \* size_of u16 and USN_RECORD_EXTENT
    Width,              \* 2^32: the sum of two u32 is taken modulo it
    Layouts,            \* buffers that the system writes
    Lengths,            \* the lengths of other buffers
    Headers             \* what may be found in these

\* How a header looks: in a notification, `next` is NextEntryOffset and the
\* last three say nothing; in a journal record it is RecordLength.  The
\* payload is the name, or in version 4 the extents.
IsHeader(h) ==
    /\ DOMAIN h = {"next", "payload", "version", "offset"}
    /\ h.next \in Nat /\ h.payload \in 0 .. Width - 1 /\ h.version \in Nat /\ h.offset \in Nat

Formats == {"notifications", "journal"}

\* Where the record after the one at offset o begins.
End(format, len, h, o) == IF format = "notifications" /\ h.next = 0 THEN len ELSE o + h.next

\* The records of a buffer follow each other from its start to its end.
InOrder(b) ==
    \A o \in DOMAIN b.at :
        LET end == End(b.format, b.len, b.at[o], o)
        IN  /\ o < end /\ end \in DOMAIN b.at \cup {b.len}
            /\ \A p \in DOMAIN b.at : p <= o \/ end <= p

\* Notifications: each but the last is padded to the size of the struct, and
\* the last ends where its name does.
Notification(len, h, o) ==
    /\ h.payload % CharSize = 0
    /\ NameOffset + h.payload < Width
    /\ IF h.next = 0 THEN len = o + NameOffset + h.payload
                     ELSE h.next >= NotificationSize /\ h.next >= NameOffset + h.payload

\* Journal records are padded to quadwords, and no shorter than their struct.
JournalRecord(h) ==
    /\ h.version \in DOMAIN RecordSize /\ h.next >= RecordSize[h.version]
    /\ IF h.version = 4 THEN ExtentsOffset + h.payload <= h.next /\ h.payload % ExtentSize = 0
                        ELSE h.offset + h.payload <= h.next /\ h.payload % CharSize = 0

FirstOffset(format) == IF format = "notifications" THEN 0 ELSE 8

WellFormed(b) ==
    /\ b.format \in Formats /\ b.len \in Nat /\ FirstOffset(b.format) <= b.len
    /\ DOMAIN b.at \subseteq FirstOffset(b.format) .. b.len - 1
    /\ FirstOffset(b.format) \in DOMAIN b.at \cup {b.len}
    /\ \A o \in DOMAIN b.at :
          /\ IsHeader(b.at[o])
          /\ IF b.format = "notifications" THEN Notification(b.len, b.at[o], o)
                                           ELSE JournalRecord(b.at[o])
    /\ InOrder(b)

ASSUME SizesAssumption ==
    /\ NameOffset \in Nat /\ NotificationSize \in Nat /\ NameOffset < NotificationSize
    /\ NotificationSize < Width /\ Width \in Nat
    /\ HeaderSize \in Nat /\ RecordSize \in [{2, 3, 4} -> Nat]
    /\ \A v \in {2, 3, 4} : HeaderSize <= RecordSize[v]
    /\ ExtentsOffset \in Nat
    /\ CharSize \in Nat \ {0} /\ ExtentSize \in Nat \ {0}

ASSUME BuffersAssumption ==
    /\ \A b \in Layouts : WellFormed(b)
    /\ Lengths \subseteq Nat
    /\ \A h \in Headers : IsHeader(h)

-----------------------------------------------------------------------------
VARIABLES
    format, len,    \* of the buffer
    at,         \* the headers it is known to have, by offset
    laidOut,    \* the system has written it
    offset,     \* how far the parser has come
    parsed,     \* the offsets of the records it has made
    reads,      \* what the last turn read: a set of pairs, from and to
    result      \* "parsing", "ok", "error", or "panic" for a slice out of range

vars == <<format, len, at, laidOut, offset, parsed, reads, result>>

Init ==
    /\ \/ \E b \in Layouts :
             format = b.format /\ len = b.len /\ at = b.at /\ laidOut = TRUE
       \/ format \in Formats /\ len \in Lengths /\ at = <<>> /\ laidOut = FALSE
    /\ offset = 0 /\ parsed = {} /\ reads = {} /\ result = "parsing"

Found == IF offset \in DOMAIN at THEN {at[offset]} ELSE Headers

Bail(what) == result' = "error" /\ reads' = what /\ UNCHANGED <<offset, parsed>>

\* Mutant: the offset is not moved on.
PushStays(what, end) ==
    /\ parsed' = parsed \cup {offset}
    /\ reads' = what /\ UNCHANGED <<offset, result>>

Push(what, end) ==
    /\ offset' = end /\ parsed' = parsed \cup {offset}
    /\ reads' = what /\ UNCHANGED result

\* Only the header at the present offset can be read again.
Keep(h) == at' = IF laidOut THEN at ELSE [o \in {offset} |-> h]

Struct(n) == {<<offset, offset + n>>}
Payload(start, n) == IF n = 0 THEN {} ELSE {<<offset + start, offset + start + n>>}

-----------------------------------------------------------------------------
(* WinApi::parse_records.                                                  *)

NotificationShort ==
    /\ result = "parsing" /\ format = "notifications" /\ offset < len
    /\ len - offset < NotificationSize
    /\ Bail({}) /\ UNCHANGED <<format, len, at, laidOut>>

\* The record is what NextEntryOffset splits off, or all the rest.
Slice(h) == IF h.next = 0 THEN len - offset ELSE h.next

\* Mutant: the name is not compared with anything.
NameUnchecked(h) == h.payload >= 0

\* Mutant: a name that ends with its record is one too long.
NameFitsStrictly(h) == (NameOffset + h.payload) % Width < Slice(h)

NameFits(h) == (NameOffset + h.payload) % Width <= Slice(h)

NotificationTurn(h) ==
    /\ result = "parsing" /\ format = "notifications" /\ offset < len
    /\ len - offset >= NotificationSize
    /\ IF \/ len - offset < h.next
          \/ h.payload > 0 /\ (~NameFits(h) \/ h.payload % CharSize # 0)
       THEN Bail(Struct(NotificationSize))
       ELSE IF h.payload > 0 /\ NameOffset + h.payload > Slice(h)
       THEN result' = "panic" /\ reads' = Struct(NotificationSize) /\ UNCHANGED <<offset, parsed>>
       ELSE Push(Struct(NotificationSize) \cup Payload(NameOffset, h.payload), offset + Slice(h))
    /\ Keep(h) /\ UNCHANGED <<format, len, laidOut>>

-----------------------------------------------------------------------------
(* Usn::parse_records.                                                     *)

\* The next USN comes first.
ReadNextUsn ==
    /\ result = "parsing" /\ format = "journal" /\ offset = 0
    /\ IF len < 8 THEN Bail({})
       ELSE offset' = 8 /\ reads' = {<<0, 8>>} /\ UNCHANGED <<parsed, result>>
    /\ UNCHANGED <<format, len, at, laidOut>>

HeaderShort ==
    /\ result = "parsing" /\ format = "journal" /\ 0 < offset /\ offset < len
    /\ offset + HeaderSize > len
    /\ Bail({}) /\ UNCHANGED <<format, len, at, laidOut>>

\* Mutant: the struct is read without a look at the end of the buffer.
HeaderFitsOnly(h) == offset + h.next <= len /\ h.version \in {2, 3, 4}

\* The record lies in the buffer, and so does the struct of its version.
RecordFits(h) ==
    /\ offset + h.next <= len
    /\ h.version \in {2, 3, 4} /\ offset + RecordSize[h.version] <= len

PayloadOffset(h) == IF h.version = 4 THEN ExtentsOffset ELSE h.offset
PayloadUnit(h) == IF h.version = 4 THEN ExtentSize ELSE CharSize

PayloadFits(h) == PayloadOffset(h) + h.payload <= h.next /\ h.payload % PayloadUnit(h) = 0

JournalTurn(h) ==
    /\ result = "parsing" /\ format = "journal" /\ 0 < offset /\ offset < len
    /\ offset + HeaderSize <= len
    /\ IF ~RecordFits(h) THEN Bail(Struct(HeaderSize))
       ELSE IF h.payload > 0 /\ ~PayloadFits(h) THEN Bail(Struct(RecordSize[h.version]))
       ELSE Push(Struct(RecordSize[h.version]) \cup Payload(PayloadOffset(h), h.payload),
                 offset + h.next)
    /\ Keep(h) /\ UNCHANGED <<format, len, laidOut>>

-----------------------------------------------------------------------------
Finish ==
    /\ result = "parsing" /\ offset >= len /\ (format = "journal" => offset > 0)
    /\ result' = "ok" /\ reads' = {}
    /\ UNCHANGED <<format, len, at, laidOut, offset, parsed>>

Next ==
    \/ NotificationShort \/ ReadNextUsn \/ HeaderShort \/ Finish
    \/ \E h \in Found : NotificationTurn(h) \/ JournalTurn(h)

Spec == Init /\ [][Next]_vars /\ WF_vars(Next)

-----------------------------------------------------------------------------
(* Properties.                                                             *)

\* The values of the variables; no slice is out of range, unless the size of
\* a name is so large that its end wraps around.
TypeOK ==
    /\ format \in Formats /\ len \in Nat /\ laidOut \in BOOLEAN
    /\ DOMAIN at \subseteq Nat /\ \A o \in DOMAIN at : IsHeader(at[o])
    /\ offset \in 0 .. len
    /\ parsed \subseteq Nat
    /\ result \in {"parsing", "ok", "error", "panic"}
    /\ result = "panic" => at[offset].payload >= Width - NameOffset

\* Whatever the bytes are, the unsafe reads stay inside of the buffer
\* (winapi.rs:71-99, usn.rs:161-262).
ReadsInside == \A r \in reads : 0 <= r[1] /\ r[1] <= r[2] /\ r[2] <= len

\* What the system writes is parsed, record for record, unless the last
\* notification ends before its padded struct would (winapi.rs:71).
LayoutsParsed ==
    laidOut /\ result # "parsing" =>
        \/ result = "ok" /\ parsed = DOMAIN at
        \/ /\ result = "error" /\ format = "notifications"
           /\ offset \in DOMAIN at /\ at[offset].next = 0
           /\ NameOffset + at[offset].payload < NotificationSize

\* Parsing ends, unless a journal record has no length and no payload: it
\* would be parsed for ever (usn.rs:276).
ParsingEnds ==
    <>(result # "parsing")
    \/ <>[](format = "journal" /\ offset \in DOMAIN at /\ at[offset].next = 0 /\ at[offset].payload = 0)
=============================================================================
