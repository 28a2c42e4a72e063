------------------------- MODULE RecordParserProofs -------------------------
(***************************************************************************)
(* What both parse_records do with every buffer, whatever the sizes of the *)
(* structs: the reads stay inside of the buffer, a buffer that the system  *)
(* laid out is parsed record for record, and every turn gets on.           *)
(***************************************************************************)
EXTENDS RecordParser, TLAPS

Buffer == [format |-> format, len |-> len, at |-> at]

\* In a buffer that the system laid out the parser stands where a record
\* begins or at the end, and it has parsed the records before.
InStep ==
    laidOut =>
        /\ WellFormed(Buffer)
        /\ offset \in DOMAIN at \cup {len} \/ (format = "journal" /\ offset = 0)
        /\ parsed = {o \in DOMAIN at : o < offset}
        /\ result # "panic"

IInv == TypeOK /\ ReadsInside /\ InStep /\ LayoutsParsed

-----------------------------------------------------------------------------
(* What is found at the offset.                                            *)

LEMMA FoundHeader ==
    ASSUME TypeOK, NEW h \in Found
    PROVE  /\ IsHeader(h)
           /\ offset \in DOMAIN at => h = at[offset]
BY BuffersAssumption DEF TypeOK, Found

LEMMA HeaderParts ==
    ASSUME NEW h, IsHeader(h)
    PROVE  h.next \in Nat /\ h.payload \in Nat /\ h.version \in Nat /\ h.offset \in Nat
BY SizesAssumption DEF IsHeader

\* A layout has a record at the offset, and no other before its end.
LEMMA RecordThere ==
    ASSUME TypeOK, InStep, laidOut, offset < len, format = "journal" => 0 < offset
    PROVE  /\ offset \in DOMAIN at
           /\ LET end == End(format, len, at[offset], offset)
              IN  /\ offset < end /\ end <= len /\ end \in DOMAIN at \cup {len}
                  /\ \A p \in DOMAIN at : p <= offset \/ end <= p
<1>1. offset \in DOMAIN at
  BY DEF TypeOK, InStep
<1>2. WellFormed(Buffer)
  BY DEF InStep
<1>3. InOrder(Buffer) /\ DOMAIN at \subseteq FirstOffset(format) .. len - 1
  BY <1>2 DEF WellFormed, Buffer
<1>4. FirstOffset(format) \in Int /\ len \in Int
  BY DEF FirstOffset, TypeOK
<1>5. QED
  BY <1>1, <1>3, <1>4 DEF InOrder, Buffer

LEMMA NotificationThere ==
    ASSUME TypeOK, InStep, laidOut, offset < len, format = "notifications"
    PROVE  offset \in DOMAIN at /\ Notification(len, at[offset], offset)
BY RecordThere DEF InStep, WellFormed, Buffer, Formats

LEMMA JournalRecordThere ==
    ASSUME TypeOK, InStep, laidOut, offset < len, format = "journal", 0 < offset
    PROVE  offset \in DOMAIN at /\ JournalRecord(at[offset])
BY RecordThere DEF InStep, WellFormed, Buffer, Formats

\* A sum below the width is itself; one that is smaller by its remainder is not.
LEMMA NoWrap ==
    ASSUME NEW n \in Nat, n < Width
    PROVE  n % Width = n
BY SizesAssumption

-----------------------------------------------------------------------------
LEMMA InitInv == Init => IInv
<1> SUFFICES ASSUME Init PROVE IInv
  OBVIOUS
<1>1. CASE laidOut = TRUE
  <2>1. PICK b \in Layouts : format = b.format /\ len = b.len /\ at = b.at
    BY <1>1 DEF Init
  <2>2. WellFormed(b)
    BY BuffersAssumption
  <2>3. WellFormed(Buffer)
    BY <2>1, <2>2 DEF WellFormed, Buffer, InOrder
  <2>4. /\ format \in Formats /\ len \in Nat /\ FirstOffset(format) \in Nat
        /\ DOMAIN at \subseteq FirstOffset(format) .. len - 1
        /\ FirstOffset(format) \in DOMAIN at \cup {len}
        /\ \A o \in DOMAIN at : IsHeader(at[o])
    BY <2>3 DEF WellFormed, Buffer, FirstOffset
  <2>5. offset = 0 /\ parsed = {} /\ reads = {} /\ result = "parsing"
    BY DEF Init
  <2>6. TypeOK
    BY <1>1, <2>4, <2>5 DEF TypeOK
  <2>7. InStep
    <3>1. offset \in DOMAIN at \cup {len} \/ (format = "journal" /\ offset = 0)
      BY <2>4, <2>5 DEF FirstOffset, Formats
    <3>2. parsed = {o \in DOMAIN at : o < offset}
      BY <2>4, <2>5
    <3> QED  BY <2>3, <2>5, <3>1, <3>2 DEF InStep
  <2> QED  BY <2>5, <2>6, <2>7 DEF IInv, ReadsInside, LayoutsParsed
<1>2. CASE laidOut = FALSE
  <2>1. /\ format \in Formats /\ len \in Lengths /\ at = <<>>
        /\ offset = 0 /\ parsed = {} /\ reads = {} /\ result = "parsing"
    BY <1>2 DEF Init
  <2>2. DOMAIN at = {}
    BY <2>1
  <2>3. len \in Nat /\ offset \in 0 .. len
    BY <2>1, BuffersAssumption
  <2>4. DOMAIN at \subseteq Nat /\ \A o \in DOMAIN at : IsHeader(at[o])
    BY <2>2
  <2>5. TypeOK
    BY <1>2, <2>1, <2>3, <2>4 DEF TypeOK
  <2> QED  BY <1>2, <2>1, <2>5 DEF IInv, ReadsInside, InStep, LayoutsParsed
<1> QED  BY <1>1, <1>2 DEF Init

-----------------------------------------------------------------------------
(* A turn that parses a record.                                            *)

\* The next record begins where this one ends.
LEMMA PushInStep ==
    ASSUME TypeOK, InStep, laidOut, offset < len, format = "journal" => 0 < offset,
           UNCHANGED <<format, len, at, laidOut, result>>,
           offset' = End(format, len, at[offset], offset),
           parsed' = parsed \cup {offset}
    PROVE  InStep'
<1> DEFINE end == End(format, len, at[offset], offset)
<1>1. /\ offset \in DOMAIN at /\ offset < end /\ end <= len /\ end \in DOMAIN at \cup {len}
      /\ \A p \in DOMAIN at : p <= offset \/ end <= p
  BY RecordThere
<1>2. DOMAIN at \subseteq Nat /\ offset \in Nat /\ end \in Nat /\ offset' = end
  BY <1>1 DEF TypeOK
<1>3. parsed = {o \in DOMAIN at : o < offset}
  BY DEF InStep
<1> HIDE DEF end
<1>4. {o \in DOMAIN at : o < offset} \cup {offset} = {o \in DOMAIN at : o < end}
  BY <1>1, <1>2
<1>5. parsed' = {o \in DOMAIN at : o < offset}'
  BY <1>2, <1>3, <1>4
<1>6. WellFormed(Buffer)' /\ (result # "panic")'
  BY DEF InStep, WellFormed, Buffer, InOrder
<1>7. offset' \in DOMAIN at' \cup {len'}
  BY <1>1, <1>2
<1> QED  BY <1>5, <1>6, <1>7 DEF InStep

\* What the last turn leaves unless it parses.
LEMMA NoMoveInStep ==
    ASSUME InStep, UNCHANGED <<format, len, at, laidOut, offset, parsed>>, result' # "panic"
    PROVE  InStep'
BY DEF InStep, WellFormed, Buffer, InOrder

LEMMA KeptType ==
    ASSUME TypeOK, NEW h, IsHeader(h), Keep(h), UNCHANGED laidOut
    PROVE  DOMAIN at' \subseteq Nat /\ \A o \in DOMAIN at' : IsHeader(at'[o])
BY DEF TypeOK, Keep

LEMMA NotificationTurnInv ==
    ASSUME IInv, NEW h \in Found, NotificationTurn(h)
    PROVE  IInv'
<1> USE DEF IInv
<1>0. /\ result = "parsing" /\ format = "notifications" /\ offset < len
      /\ len - offset >= NotificationSize /\ Keep(h) /\ UNCHANGED <<format, len, laidOut>>
  BY DEF NotificationTurn
<1>1. IsHeader(h) /\ (offset \in DOMAIN at => h = at[offset])
  BY FoundHeader
<1>2. h.next \in Nat /\ h.payload \in Nat /\ h.payload < Width
  BY <1>1, SizesAssumption DEF IsHeader
<1>3. /\ DOMAIN at' \subseteq Nat /\ \A o \in DOMAIN at' : IsHeader(at'[o])
  BY <1>0, <1>1, KeptType
<1>4. offset \in Nat /\ len \in Nat /\ NotificationSize \in Nat /\ NameOffset \in Nat /\ Width \in Nat
  BY SizesAssumption DEF TypeOK
<1>5. Slice(h) \in Nat
  BY <1>0, <1>2, <1>4 DEF Slice
<1>6. laidOut => /\ at' = at /\ h = at[offset] /\ offset \in DOMAIN at
                 /\ Notification(len, h, offset)
                 /\ offset + Slice(h) = End(format, len, h, offset)
                 /\ offset + Slice(h) <= len
  <2> SUFFICES ASSUME laidOut
               PROVE  /\ at' = at /\ h = at[offset] /\ offset \in DOMAIN at
                      /\ Notification(len, h, offset)
                      /\ offset + Slice(h) = End(format, len, h, offset)
                      /\ offset + Slice(h) <= len
    OBVIOUS
  <2>1. offset \in DOMAIN at /\ Notification(len, at[offset], offset) /\ h = at[offset]
    BY <1>0, <1>1, NotificationThere
  <2>2. at' = at
    BY <1>0 DEF Keep
  <2>3. offset + Slice(h) = End(format, len, h, offset)
    BY <1>0, <1>2, <1>4 DEF Slice, End
  <2>4. End(format, len, h, offset) <= len
    BY <1>0, <2>1, RecordThere
  <2> QED  BY <2>1, <2>2, <2>3, <2>4
<1>7. laidOut => /\ len - offset >= h.next
                 /\ NameFits(h) /\ h.payload % CharSize = 0 /\ NameOffset + h.payload <= Slice(h)
  <2> SUFFICES ASSUME laidOut
               PROVE  /\ len - offset >= h.next
                      /\ NameFits(h) /\ h.payload % CharSize = 0
                      /\ NameOffset + h.payload <= Slice(h)
    OBVIOUS
  <2>1. NameOffset + h.payload < Width /\ h.payload % CharSize = 0
    BY <1>6 DEF Notification
  <2>2. NameOffset + h.payload <= Slice(h)
    BY <1>2, <1>4, <1>6 DEF Notification, Slice
  <2>3. (NameOffset + h.payload) % Width = NameOffset + h.payload
    BY <1>2, <1>4, <2>1, NoWrap
  <2>4. len - offset >= h.next
    BY <1>0, <1>2, <1>4, <1>6 DEF Slice
  <2> QED  BY <2>1, <2>2, <2>3, <2>4 DEF NameFits
<1>8. CASE \/ len - offset < h.next
           \/ h.payload > 0 /\ (~NameFits(h) \/ h.payload % CharSize # 0)
  <2>1. ~laidOut
    BY <1>2, <1>4, <1>7, <1>8
  <2>2. Bail(Struct(NotificationSize))
    BY <1>8 DEF NotificationTurn
  <2>3. TypeOK'
    BY <1>0, <1>3, <2>2 DEF TypeOK, Bail
  <2>4. ReadsInside'
    BY <1>0, <1>4, <2>2 DEF ReadsInside, Bail, Struct
  <2> QED  BY <1>0, <2>1, <2>3, <2>4 DEF InStep, LayoutsParsed
<1>9. CASE /\ ~(\/ len - offset < h.next
                \/ h.payload > 0 /\ (~NameFits(h) \/ h.payload % CharSize # 0))
           /\ h.payload > 0 /\ NameOffset + h.payload > Slice(h)
  <2>1. ~laidOut
    BY <1>2, <1>4, <1>5, <1>7, <1>9
  <2>2. result' = "panic" /\ reads' = Struct(NotificationSize) /\ UNCHANGED <<offset, parsed>>
    BY <1>9 DEF NotificationTurn
  <2>3. NameFits(h)
    BY <1>9
  <2>4. NameOffset + h.payload >= Width
    <3> SUFFICES ASSUME NameOffset + h.payload < Width PROVE FALSE
      BY <1>2, <1>4
    <3>1. (NameOffset + h.payload) % Width = NameOffset + h.payload
      BY <1>2, <1>4, NoWrap
    <3> QED  BY <1>2, <1>4, <1>5, <1>9, <2>3, <3>1 DEF NameFits
  <2>5. at'[offset'].payload >= Width - NameOffset
    BY <1>0, <1>2, <1>4, <2>1, <2>2, <2>4 DEF Keep
  <2>6. TypeOK'
    BY <1>0, <1>3, <2>2, <2>5 DEF TypeOK
  <2>7. ReadsInside'
    BY <1>0, <1>4, <2>2 DEF ReadsInside, Struct
  <2> QED  BY <1>0, <2>1, <2>6, <2>7 DEF InStep, LayoutsParsed
<1>10. CASE /\ ~(\/ len - offset < h.next
                 \/ h.payload > 0 /\ (~NameFits(h) \/ h.payload % CharSize # 0))
            /\ ~(h.payload > 0 /\ NameOffset + h.payload > Slice(h))
  <2>1. /\ offset' = offset + Slice(h) /\ parsed' = parsed \cup {offset} /\ UNCHANGED result
        /\ reads' = Struct(NotificationSize) \cup Payload(NameOffset, h.payload)
    BY <1>10 DEF NotificationTurn, Push
  <2>2. offset + Slice(h) <= len /\ offset + Slice(h) \in Nat
    BY <1>2, <1>4, <1>5, <1>10 DEF Slice
  <2>3. TypeOK'
    BY <1>0, <1>3, <1>4, <2>1, <2>2 DEF TypeOK
  <2>4. ReadsInside'
    <3>1. \A r \in Struct(NotificationSize) : 0 <= r[1] /\ r[1] <= r[2] /\ r[2] <= len
      BY <1>0, <1>4 DEF Struct
    <3>2. \A r \in Payload(NameOffset, h.payload) : 0 <= r[1] /\ r[1] <= r[2] /\ r[2] <= len
      BY <1>2, <1>4, <1>5, <1>10, <2>2 DEF Payload
    <3> QED  BY <1>0, <2>1, <3>1, <3>2 DEF ReadsInside
  <2>5. InStep'
    <3>1. CASE laidOut
      BY <1>0, <1>6, <2>1, <3>1, PushInStep
    <3>2. CASE ~laidOut
      BY <1>0, <3>2 DEF InStep
    <3> QED  BY <3>1, <3>2
  <2>6. LayoutsParsed'
    BY <1>0, <2>1 DEF LayoutsParsed
  <2> QED  BY <2>3, <2>4, <2>5, <2>6
<1> QED  BY <1>8, <1>9, <1>10

LEMMA NotificationShortInv ==
    ASSUME IInv, NotificationShort
    PROVE  IInv'
<1> USE DEF IInv
<1>1. /\ format = "notifications" /\ offset < len /\ len - offset < NotificationSize
      /\ result' = "error" /\ reads' = {} /\ UNCHANGED <<format, len, at, laidOut, offset, parsed>>
  BY DEF NotificationShort, Bail
<1>2. TypeOK'
  BY <1>1 DEF TypeOK
<1>3. ReadsInside'
  BY <1>1 DEF ReadsInside
<1>4. InStep'
  BY <1>1, NoMoveInStep
<1>5. LayoutsParsed'
  <2> SUFFICES ASSUME laidOut
               PROVE  /\ offset \in DOMAIN at /\ at[offset].next = 0
                      /\ NameOffset + at[offset].payload < NotificationSize
    BY <1>1 DEF LayoutsParsed
  <2>1. offset \in DOMAIN at /\ Notification(len, at[offset], offset)
    BY <1>1, NotificationThere
  <2>2. at[offset].next \in Nat /\ at[offset].payload \in Nat
    BY <2>1, HeaderParts DEF TypeOK
  <2>3. End(format, len, at[offset], offset) <= len
    BY <1>1, RecordThere
  <2>4. offset \in Nat /\ len \in Nat /\ NotificationSize \in Nat /\ NameOffset \in Nat
    BY SizesAssumption DEF TypeOK
  <2> QED  BY <1>1, <2>1, <2>2, <2>3, <2>4 DEF Notification, End
<1> QED  BY <1>2, <1>3, <1>4, <1>5

-----------------------------------------------------------------------------
(* The journal.                                                            *)

LEMMA ReadNextUsnInv ==
    ASSUME IInv, ReadNextUsn
    PROVE  IInv'
<1> USE DEF IInv
<1>1. /\ result = "parsing" /\ format = "journal" /\ offset = 0
      /\ UNCHANGED <<format, len, at, laidOut>>
  BY DEF ReadNextUsn
<1>2. laidOut => /\ 8 <= len /\ 8 \in DOMAIN at \cup {len}
                 /\ DOMAIN at \subseteq 8 .. len - 1
  BY <1>1 DEF InStep, WellFormed, Buffer, FirstOffset
<1>3. len \in Nat
  BY DEF TypeOK
<1>4. CASE len < 8
  <2>1. ~laidOut
    BY <1>2, <1>3, <1>4
  <2> QED  BY <1>1, <1>4, <2>1 DEF ReadNextUsn, Bail, TypeOK, ReadsInside, InStep, LayoutsParsed
<1>5. CASE ~(len < 8)
  <2>1. offset' = 8 /\ reads' = {<<0, 8>>} /\ UNCHANGED <<parsed, result>>
    BY <1>5 DEF ReadNextUsn
  <2>2. TypeOK'
    BY <1>1, <1>3, <1>5, <2>1 DEF TypeOK
  <2>3. ReadsInside'
    BY <1>1, <1>3, <1>5, <2>1 DEF ReadsInside
  <2>4. InStep'
    <3> SUFFICES ASSUME laidOut PROVE InStep'
      BY <1>1 DEF InStep
    <3>1. parsed = {o \in DOMAIN at : o < 0}
      BY <1>1 DEF InStep
    <3>2. {o \in DOMAIN at : o < 0} = {o \in DOMAIN at : o < 8}
      BY <1>2, <1>3
    <3>3. parsed' = {o \in DOMAIN at : o < offset}'
      BY <1>1, <2>1, <3>1, <3>2
    <3>4. WellFormed(Buffer)'
      BY <1>1 DEF InStep, WellFormed, Buffer, InOrder
    <3> QED  BY <1>1, <1>2, <2>1, <3>3, <3>4 DEF InStep
  <2> QED  BY <1>1, <2>1, <2>2, <2>3, <2>4 DEF LayoutsParsed
<1> QED  BY <1>4, <1>5

LEMMA HeaderShortInv ==
    ASSUME IInv, HeaderShort
    PROVE  IInv'
<1> USE DEF IInv
<1>1. /\ format = "journal" /\ 0 < offset /\ offset < len /\ offset + HeaderSize > len
      /\ result' = "error" /\ reads' = {} /\ UNCHANGED <<format, len, at, laidOut, offset, parsed>>
  BY DEF HeaderShort, Bail
<1>2. ~laidOut
  <2> SUFFICES ASSUME laidOut PROVE FALSE
    OBVIOUS
  <2>1. offset \in DOMAIN at /\ JournalRecord(at[offset])
    BY <1>1, JournalRecordThere
  <2>2. at[offset].next \in Nat /\ at[offset].version \in {2, 3, 4}
    BY <2>1, HeaderParts, SizesAssumption DEF TypeOK, JournalRecord
  <2>3. /\ RecordSize[at[offset].version] \in Nat
        /\ HeaderSize \in Nat /\ HeaderSize <= RecordSize[at[offset].version]
    BY <2>2, SizesAssumption
  <2>4. at[offset].next >= HeaderSize
    BY <2>1, <2>2, <2>3 DEF JournalRecord
  <2>5. offset + at[offset].next <= len
    BY <1>1, RecordThere DEF End
  <2> QED  BY <1>1, <2>2, <2>3, <2>4, <2>5 DEF TypeOK
<1> QED  BY <1>1, <1>2 DEF TypeOK, ReadsInside, InStep, LayoutsParsed

LEMMA JournalTurnInv ==
    ASSUME IInv, NEW h \in Found, JournalTurn(h)
    PROVE  IInv'
<1> USE DEF IInv
<1>0. /\ result = "parsing" /\ format = "journal" /\ 0 < offset /\ offset < len
      /\ offset + HeaderSize <= len /\ Keep(h) /\ UNCHANGED <<format, len, laidOut>>
  BY DEF JournalTurn
<1>1. IsHeader(h) /\ (offset \in DOMAIN at => h = at[offset])
  BY FoundHeader
<1>2. h.next \in Nat /\ h.payload \in Nat /\ h.version \in Nat /\ h.offset \in Nat
  BY <1>1, HeaderParts
<1>3. /\ DOMAIN at' \subseteq Nat /\ \A o \in DOMAIN at' : IsHeader(at'[o])
  BY <1>0, <1>1, KeptType
<1>4. offset \in Nat /\ len \in Nat /\ HeaderSize \in Nat /\ ExtentsOffset \in Nat
  BY SizesAssumption DEF TypeOK
<1>5. h.version \in {2, 3, 4} => RecordSize[h.version] \in Nat
  BY SizesAssumption
<1>6. laidOut => /\ at' = at /\ h = at[offset] /\ JournalRecord(h)
                 /\ offset + h.next = End(format, len, h, offset)
                 /\ offset + h.next <= len
  BY <1>0, <1>1, RecordThere, JournalRecordThere DEF Keep, End
<1>7. laidOut => RecordFits(h) /\ PayloadFits(h)
  <2> SUFFICES ASSUME laidOut PROVE RecordFits(h) /\ PayloadFits(h)
    OBVIOUS
  <2>1. h.version \in {2, 3, 4} /\ h.next >= RecordSize[h.version]
    BY <1>6, SizesAssumption DEF JournalRecord
  <2>2. RecordFits(h)
    BY <1>2, <1>4, <1>5, <1>6, <2>1 DEF RecordFits
  <2>3. PayloadFits(h)
    BY <1>6 DEF PayloadFits, PayloadOffset, PayloadUnit, JournalRecord
  <2> QED  BY <2>2, <2>3
<1>8. CASE ~RecordFits(h)
  <2>1. Bail(Struct(HeaderSize)) /\ ~laidOut
    BY <1>7, <1>8 DEF JournalTurn
  <2>2. TypeOK'
    BY <1>0, <1>3, <2>1 DEF TypeOK, Bail
  <2>3. ReadsInside'
    BY <1>0, <1>4, <2>1 DEF ReadsInside, Bail, Struct
  <2> QED  BY <1>0, <2>1, <2>2, <2>3 DEF InStep, LayoutsParsed
<1>9. CASE RecordFits(h) /\ h.payload > 0 /\ ~PayloadFits(h)
  <2>1. Bail(Struct(RecordSize[h.version])) /\ ~laidOut
    BY <1>7, <1>9 DEF JournalTurn
  <2>2. TypeOK'
    BY <1>0, <1>3, <2>1 DEF TypeOK, Bail
  <2>3. ReadsInside'
    BY <1>0, <1>4, <1>5, <1>9, <2>1 DEF ReadsInside, Bail, Struct, RecordFits
  <2> QED  BY <1>0, <2>1, <2>2, <2>3 DEF InStep, LayoutsParsed
<1>10. CASE RecordFits(h) /\ ~(h.payload > 0 /\ ~PayloadFits(h))
  <2>1. /\ offset' = offset + h.next /\ parsed' = parsed \cup {offset} /\ UNCHANGED result
        /\ reads' = Struct(RecordSize[h.version]) \cup Payload(PayloadOffset(h), h.payload)
    BY <1>10 DEF JournalTurn, Push
  <2>2. offset + h.next <= len
    BY <1>10 DEF RecordFits
  <2>3. TypeOK'
    BY <1>0, <1>2, <1>3, <1>4, <2>1, <2>2 DEF TypeOK
  <2>4. ReadsInside'
    <3>1. \A r \in Struct(RecordSize[h.version]) : 0 <= r[1] /\ r[1] <= r[2] /\ r[2] <= len
      BY <1>4, <1>5, <1>10 DEF Struct, RecordFits
    <3>2. PayloadOffset(h) \in Nat
      BY <1>2, <1>4 DEF PayloadOffset
    <3>3. \A r \in Payload(PayloadOffset(h), h.payload) : 0 <= r[1] /\ r[1] <= r[2] /\ r[2] <= len
      BY <1>2, <1>4, <1>10, <2>2, <3>2 DEF Payload, PayloadFits
    <3> QED  BY <1>0, <2>1, <3>1, <3>3 DEF ReadsInside
  <2>5. InStep'
    <3>1. CASE laidOut
      BY <1>0, <1>6, <2>1, <3>1, PushInStep
    <3>2. CASE ~laidOut
      BY <1>0, <3>2 DEF InStep
    <3> QED  BY <3>1, <3>2
  <2>6. LayoutsParsed'
    BY <1>0, <2>1 DEF LayoutsParsed
  <2> QED  BY <2>3, <2>4, <2>5, <2>6
<1> QED  BY <1>8, <1>9, <1>10

-----------------------------------------------------------------------------
LEMMA FinishInv ==
    ASSUME IInv, Finish
    PROVE  IInv'
<1> USE DEF IInv
<1>1. /\ offset >= len /\ (format = "journal" => offset > 0)
      /\ result' = "ok" /\ reads' = {} /\ UNCHANGED <<format, len, at, laidOut, offset, parsed>>
  BY DEF Finish
<1>2. TypeOK' /\ ReadsInside'
  BY <1>1 DEF TypeOK, ReadsInside
<1>3. InStep'
  BY <1>1, NoMoveInStep
<1>4. laidOut => parsed = DOMAIN at
  <2> SUFFICES ASSUME laidOut PROVE \A o \in DOMAIN at : o < offset
    BY DEF InStep
  <2>1. DOMAIN at \subseteq FirstOffset(format) .. len - 1
    BY DEF InStep, WellFormed, Buffer
  <2>2. FirstOffset(format) \in Int /\ len \in Nat /\ offset \in Nat
    BY DEF FirstOffset, TypeOK
  <2> QED  BY <1>1, <2>1, <2>2
<1> QED  BY <1>1, <1>2, <1>3, <1>4 DEF LayoutsParsed

LEMMA StutterInv ==
    ASSUME IInv, UNCHANGED vars
    PROVE  IInv'
BY DEF IInv, vars, TypeOK, ReadsInside, InStep, WellFormed, Buffer, InOrder, LayoutsParsed

\* The invariant is inductive.
THEOREM Inductive == Spec => []IInv
<1>1. IInv /\ [Next]_vars => IInv'
  <2> SUFFICES ASSUME IInv, [Next]_vars PROVE IInv'
    OBVIOUS
  <2>1. CASE NotificationShort  BY <2>1, NotificationShortInv
  <2>2. CASE ReadNextUsn  BY <2>2, ReadNextUsnInv
  <2>3. CASE HeaderShort  BY <2>3, HeaderShortInv
  <2>4. CASE Finish  BY <2>4, FinishInv
  <2>5. ASSUME NEW h \in Found, NotificationTurn(h) PROVE IInv'
    BY <2>5, NotificationTurnInv
  <2>6. ASSUME NEW h \in Found, JournalTurn(h) PROVE IInv'
    BY <2>6, JournalTurnInv
  <2>7. CASE UNCHANGED vars  BY <2>7, StutterInv
  <2> QED  BY <2>1, <2>2, <2>3, <2>4, <2>5, <2>6, <2>7 DEF Next
<1> QED  BY <1>1, InitInv, PTL DEF Spec

\* Every variable keeps its values, and a slice is out of range only after a
\* sum of two u32 that wraps (winapi.rs:88).
THEOREM TypeCorrect == Spec => []TypeOK
BY Inductive, PTL DEF IInv

\* No bytes, however they were made up, make parse_records read outside of
\* the buffer (winapi.rs:71-99, usn.rs:149-262).
THEOREM ReadsStayInside == Spec => []ReadsInside
BY Inductive, PTL DEF IInv

\* A buffer that the system laid out is parsed record for record, but for a
\* last notification with a short name (winapi.rs:71, usn.rs:161-276).
THEOREM LayoutsAreParsed == Spec => []LayoutsParsed
BY Inductive, PTL DEF IInv
-----------------------------------------------------------------------------
(* The loops get on.                                                       *)

\* A turn ends the loop or takes the offset on, but for a journal record that
\* the system has not laid out, of no length and no payload: it stays there.
TurnAdvances ==
    \/ result' # "parsing"
    \/ offset' \in (offset + 1) .. len
    \/ /\ ~laidOut /\ format = "journal"
       /\ at'[offset].next = 0 /\ at'[offset].payload = 0

LEMMA NotificationAdvances ==
    ASSUME IInv, NEW h \in Found, NotificationTurn(h)
    PROVE  TurnAdvances
<1>1. /\ offset \in Nat /\ len \in Nat /\ offset < len /\ len - offset >= NotificationSize
      /\ h.next \in Nat /\ h.payload \in Nat
  BY FoundHeader, HeaderParts DEF IInv, TypeOK, NotificationTurn
<1>2. CASE result' = "parsing"
  <2>1. offset' = offset + Slice(h) /\ ~(len - offset < h.next)
    BY <1>2 DEF NotificationTurn, Bail, Push
  <2>2. Slice(h) \in 1 .. len - offset
    BY <1>1, <2>1 DEF Slice
  <2> QED
    BY <1>1, <2>1, <2>2 DEF TurnAdvances
<1> QED
  BY <1>2 DEF TurnAdvances

LEMMA JournalAdvances ==
    ASSUME IInv, NEW h \in Found, JournalTurn(h)
    PROVE  TurnAdvances
<1>1. /\ offset \in Nat /\ len \in Nat /\ format = "journal" /\ 0 < offset /\ offset < len
      /\ IsHeader(h) /\ h.next \in Nat /\ h.payload \in Nat /\ h.offset \in Nat
  BY FoundHeader, HeaderParts DEF IInv, TypeOK, JournalTurn
<1>2. CASE result' = "parsing"
  <2>1. /\ offset' = offset + h.next /\ offset + h.next <= len
        /\ h.payload > 0 => PayloadFits(h)
    BY <1>2 DEF JournalTurn, Bail, Push, RecordFits
  <2>2. CASE h.next > 0
    BY <1>1, <2>1, <2>2 DEF TurnAdvances
  <2>3. CASE h.next = 0
    <3>1. h.payload = 0
      BY <1>1, <2>1, <2>3, SizesAssumption DEF PayloadFits, PayloadOffset
    <3>2. ~laidOut
      <4> SUFFICES ASSUME laidOut PROVE FALSE
        OBVIOUS
      <4>1. offset \in DOMAIN at /\ offset < End(format, len, at[offset], offset)
        BY <1>1, RecordThere DEF IInv
      <4>2. h = at[offset]
        BY <4>1, FoundHeader DEF IInv
      <4> QED
        BY <1>1, <2>3, <4>1, <4>2 DEF End
    <3>3. at'[offset] = h
      BY <3>2 DEF JournalTurn, Keep
    <3> QED
      BY <1>1, <2>3, <3>1, <3>2, <3>3 DEF TurnAdvances
  <2> QED
    BY <1>1, <2>2, <2>3
<1> QED
  BY <1>2 DEF TurnAdvances

\* Neither loop takes more turns than its buffer has bytes, but for the record
\* named above: a buffer of the system is parsed to its end (winapi.rs:66-110,
\* usn.rs:157-277).
THEOREM TurnsAdvance == Spec => [][TurnAdvances]_vars
<1>1. IInv /\ [Next]_vars => [TurnAdvances]_vars
  <2> SUFFICES ASSUME IInv, Next PROVE TurnAdvances
    OBVIOUS
  <2>1. CASE NotificationShort \/ HeaderShort \/ Finish
    BY <2>1 DEF NotificationShort, HeaderShort, Finish, Bail, TurnAdvances
  <2>2. CASE ReadNextUsn
    BY <2>2 DEF ReadNextUsn, Bail, TurnAdvances, IInv, TypeOK
  <2>3. ASSUME NEW h \in Found, NotificationTurn(h) \/ JournalTurn(h) PROVE TurnAdvances
    BY <2>3, NotificationAdvances, JournalAdvances
  <2> QED
    BY <2>1, <2>2, <2>3 DEF Next
<1> QED
  BY <1>1, Inductive, PTL DEF Spec
=============================================================================
